---- MODULE Spec2Model ----
(***************************************************************************)
(* Price analysis of the basic food basket (cesta basica).                 *)
(*                                                                         *)
(*   Spec       AnalisadorCestaBasicaPro.analisar_previsao_preco_ml        *)
(*              (src/classes/algotithms.py) and the category forecast the  *)
(*              batch pipeline calls (src/ml_model/main.py)                *)
(*   SpecLider  AnalisadorCestaBasicaPro.analisar_lideranca_preco, its     *)
(*              wrapper rodar_analise_q2 and the dashboard's verdicts      *)
(*              (src/dashboard.py)                                         *)
(*   SpecRes    the result objects of rodar_analise_q1, rodar_analise_q2   *)
(*              and MLPipeline.run_model_predictions                       *)
(*   SpecADF    AnalisadorCestaBasicaPro._verificar_estacionariedade on    *)
(*              one series, step by step                                   *)
(*   SpecConc   two invocations interleaved on one analyzer object         *)
(*   SpecSessao MySQLConnection.session_scope around a with-body           *)
(*   SpecConexao the connection singletons and DatabaseManager, called     *)
(*              from two threads                                           *)
(*   SpecMigracao CleanDataMigrator: populate_master_tables, migrate_data  *)
(*                                                                         *)
(* A pandas Series or DataFrame is a sequence of rows that carry their     *)
(* period index t; an undefined (NaN) value is the empty sequence <<>> and *)
(* a defined value v is <<v>>.                                             *)
(***************************************************************************)
EXTENDS Integers, Sequences, FiniteSets, TLC

\* ------------------------------------------------------------------ bounds
MaxLen == 5         \* longest weekly series enumerated
MaxPreco == 1       \* prices (PPK) range over 0..MaxPreco
MaxLags == 2        \* n_lags ranges over 1..MaxLags
MaxTeste == 2       \* test_size_semanas ranges over 0..MaxTeste
MaxHorizonte == 2   \* forecast horizon h ranges over 1..MaxHorizonte

MaxLagQ2 == 2       \* max_lag ranges over 1..MaxLagQ2
MaxSemente == 2     \* longest price pattern laid over the base price
MaxChamadas == 3    \* calls on the connection classes, over all threads
MaxRegistros == 1   \* rows of the cleaned file
MaxEscopos == 2     \* session scopes entered one after the other
MaxSemanasConc == 2 \* weeks of the dataset two invocations share
MaxDesloc == 3      \* latest week at which the second pattern starts

\* ------------------------------------------------------- program constants
NLagsPadrao == 4    \* n_lags=4
MaxLagPadrao == 8   \* max_lag=8
MinimoPares == 20   \* len(dados_pares) < max_lag + 20
Alfa == 5           \* the 0.05 level, p-values counted in hundredths

None == <<>>
NaN == <<>>
Precos == 0..MaxPreco

VARIABLES
    pc,                 \* position inside the running analysis
    variante,           \* "preco_ml" (algotithms.py) or "categoria" (pipeline)
    colunaExiste,       \* categoria_col in self.dados_brutos.columns
    semanal,            \* dados_filtrados['PPK'].resample(freq).mean()
    n_lags, test_size, horizonte,
    serie,              \* result of _preparar_serie_temporal
    X, y,               \* lag table of _criar_features_lags
    X_train, X_test, y_train, y_test,
    modelo,             \* the fitted evaluation model
    predicoes,          \* modelo.predict(X_test)
    mape,               \* mean_absolute_percentage_error(y_test, predicoes)
    conclusao,          \* the printed judgement against the 10% objective
    modelo_final,       \* the model that produces the future forecast
    historico,          \* feature window used at each forecast step
    previsoes,          \* forecast values, one per step
    saida               \* how the invocation ended

VARIABLES
    pcL,                \* position inside analisar_lideranca_preco and after
    varianteL,          \* "impressao" (algotithms.py) or "tupla" (ID-based)
    produtoExiste,      \* rows with Produto == produto_id exist
    estabsExistem,      \* both establishments are columns of the pivot
    pivot,              \* dados_pivot[[estab_A, estab_B]].resample(freq).mean()
    max_lag,
    oraculo,            \* what grangercausalitytests answers, per direction
    dados_pares,
    serie_A_est, serie_B_est,
    dados_estacionarios,
    granger_A_causa_B, granger_B_causa_A,
    p_valor_min_A_B, p_valor_min_B_A,
    sigAB, sigBA,       \* the two printed verdicts
    ccf_vals, max_corr_lag, max_corr_val,
    retorno,            \* what the analysis hands to its caller
    resultados_q2,      \* the dictionary built by rodar_analise_q2
    exibido,            \* the metrics the dashboard shows
    saidaL

varsL == <<pcL, varianteL, produtoExiste, estabsExistem, pivot, max_lag, oraculo,
           dados_pares, serie_A_est, serie_B_est, dados_estacionarios,
           granger_A_causa_B, granger_B_causa_A, p_valor_min_A_B, p_valor_min_B_A,
           sigAB, sigBA, ccf_vals, max_corr_lag, max_corr_val, retorno,
           resultados_q2, exibido, saidaL>>

VARIABLES
    pcR,                \* position of the wrapper being run
    chamada,            \* "q1", "q2" or "pipeline"
    retornoR,           \* what the analyzer call of the wrapper produced
    resultadoR,         \* the dictionary the dashboard wrapper returned
    retornos,           \* pipeline: what each category's call produced
    results,            \* pipeline: results[categoria], in processing order
    falhaR,             \* what went wrong inside the analysis the wrapper ran
    falhas,             \* pipeline: the same, for each category
    dados_brutosR,      \* pipeline: the dataset of the analyzer built at line 55
    levantou,           \* class of the exception that left the wrapper
    ligacao             \* rodar_analise_q2: its max_lag and what the call binds

varsR == <<pcR, chamada, retornoR, resultadoR, retornos, results,
           falhaR, falhas, dados_brutosR, levantou, ligacao>>

VARIABLES
    pcE,                \* position inside _verificar_estacionariedade
    serieE,             \* its argument `serie`
    oraculoE,           \* what adfuller answers: the p-values, or a raise
    p_valor,            \* adf_result[1] of the first test
    serie_estacionaria, \* serie.diff().dropna()
    testesE,            \* the series handed to adfuller, in order
    retornoE,           \* the series returned
    saidaE              \* "ok" or "excecao"

varsE == <<pcE, serieE, oraculoE, p_valor, serie_estacionaria, testesE,
           retornoE, saidaE>>

varsQ1 == <<pc, variante, colunaExiste, semanal, n_lags, test_size, horizonte,
            serie, X, y, X_train, X_test, y_train, y_test, modelo, predicoes,
            modelo_final, historico, previsoes, saida, mape, conclusao>>

VARIABLES
    dados_brutos,       \* self.dados_brutos, shared by the invocations
    campos,             \* the other attributes of the analyzer object
    instantaneo,        \* the dataset as it was loaded
    invocacao,          \* per invocation: what was called, with which arguments
    pcC,                \* per invocation: its position
    locaisC,            \* per invocation: its local names
    retC,               \* per invocation: what it returned
    sobrepostas         \* two invocations have been under way at once

varsC == <<dados_brutos, campos, instantaneo, invocacao, pcC, locaisC, retC,
           sobrepostas>>

VARIABLES
    pcS,                \* where session_scope stands
    session,            \* the session: its transaction, pending rows, closes
    banco,              \* the rows committed to the database
    bancoAntes,         \* the committed rows when the scope was entered
    fimCorpo,           \* how the with-body ended
    excecaoS,           \* the exception in flight
    chamadasS,          \* the session methods called, in order
    propagadaS,         \* what reached the caller of the with statement
    escopos             \* scopes entered so far

varsS == <<pcS, session, banco, bancoAntes, fimCorpo, excecaoS, chamadasS,
           propagadaS, escopos>>

VARIABLES
    instancia,          \* per class: cls._instance, 0 for None, else the object
    objetos,            \* the connection objects created so far
    gerenciador,        \* DatabaseManager._mysql and ._mongodb, 0 for None
    inicializacoes,     \* per class: runs of _initialize
    pcG,                \* per thread: where its call stands
    opG,                \* per thread: the call it is making
    retG,               \* per thread: the object returned, 0 none, -1 raised
    devolvidas,         \* objects that were returned to a caller
    chamadasG,          \* calls started so far
    aposFechar          \* close_all has just returned

varsG == <<instancia, objetos, gerenciador, inicializacoes, pcG, opG, retG,
           devolvidas, chamadasG, aposFechar>>

VARIABLES
    pcM,                \* where the migration stands
    mestre,             \* per master table: its rows
    df_clean,           \* the rows of the cleaned file
    indiceM,            \* the next row of the batch
    pendentesM,         \* ICBData records added to the session
    icb_data,           \* ICBData records committed
    records_failed      \* stats['records_failed']

varsM == <<pcM, mestre, df_clean, indiceM, pendentesM, icb_data,
           records_failed>>

vars == <<varsQ1, varsL, varsR, varsE, varsC, varsS, varsG, varsM>>

\* what each group of operations leaves alone
foraQ1 == <<varsL, varsR, varsE, varsC, varsS, varsG, varsM>>
foraL == <<varsQ1, varsR, varsE, varsC, varsS, varsG, varsM>>
foraR == <<varsQ1, varsL, varsE, varsC, varsS, varsG, varsM>>
foraE == <<varsQ1, varsL, varsR, varsC, varsS, varsG, varsM>>
foraC == <<varsQ1, varsL, varsR, varsE, varsS, varsG, varsM>>
foraS == <<varsQ1, varsL, varsR, varsE, varsC, varsG, varsM>>
foraG == <<varsQ1, varsL, varsR, varsE, varsC, varsS, varsM>>
foraM == <<varsQ1, varsL, varsR, varsE, varsC, varsS, varsG>>

\* ----------------------------------------------------------------- helpers
RECURSIVE SeqsUpTo(_, _)
SeqsUpTo(S, n) ==
    IF n = 0 THEN {<<>>}
    ELSE LET prev == SeqsUpTo(S, n - 1)
         IN  prev \cup {Append(s, v) : s \in {p \in prev : Len(p) = n - 1}, v \in S}

Abs(a) == IF a < 0 THEN 0 - a ELSE a

\* python slice seq[a:b] on 0-based positions, already clipped by the caller
Fatia(s, a, b) == IF b <= a THEN <<>> ELSE SubSeq(s, a + 1, b)

\* python s.iloc[:-k]: for k = 0 the stop -0 is 0 and the slice is empty
IlocAteMenos(s, k) ==
    IF k = 0 THEN <<>>
    ELSE IF k >= Len(s) THEN <<>>
    ELSE Fatia(s, 0, Len(s) - k)

\* python s.iloc[-k:]: for k = 0 the start -0 is 0 and the slice is everything
IlocDesdeMenos(s, k) ==
    IF k = 0 THEN s
    ELSE IF k >= Len(s) THEN s
    ELSE Fatia(s, Len(s) - k, Len(s))

\* ---------------------------------------------- _preparar_serie_temporal
\* mutant: the holes are left as they are
Ffill_SemPreencher(s) == s

\* Series.fillna(method='ffill'): an undefined period takes the last value
RECURSIVE Ffill(_)
Ffill(s) ==
    IF Len(s) <= 1 THEN s
    ELSE LET ini == Ffill(SubSeq(s, 1, Len(s) - 1))
             ult == s[Len(s)]
         IN  Append(ini, IF ult = NaN THEN ini[Len(ini)] ELSE ult)

\* Series.dropna() on a series indexed by period: rows [t, v]
RECURSIVE Indexar(_, _)
Indexar(s, t0) ==
    IF s = <<>> THEN <<>>
    ELSE <<[t |-> t0, v |-> s[1]]>> \o Indexar(Tail(s), t0 + 1)

DropnaSerie(rows) == SelectSeq(rows, LAMBDA r : r.v # NaN)

Desembrulha(rows) == [i \in 1..Len(rows) |-> [t |-> rows[i].t, v |-> rows[i].v[1]]]

\* resample(freq).mean(), ffill, dropna: the series as rows [t, v], t from 0
PrepararSerie(sem) == Desembrulha(DropnaSerie(Indexar(Ffill(sem), 0)))

\* ---------------------------------------------------- _criar_features_lags
\* mutant: lag i reads the value i - 1 rows earlier
Shift_UmAMenos(s, i, p) == IF p - i >= 1 THEN <<s[p - i + 1].v>> ELSE NaN

\* df['y'].shift(i) at row position p (1-based): the value i rows earlier
Shift(s, i, p) == IF p - i >= 1 THEN <<s[p - i].v>> ELSE NaN

LinhaLags(s, n, p) == [i \in 1..n |-> Shift(s, i, p)]

TemNaN(l) == \E i \in 1..Len(l) : l[i] = NaN

\* the rows that survive df.dropna()
LinhasValidas(s, n) == {p \in 1..Len(s) : ~TemNaN(LinhaLags(s, n, p))}

RECURSIVE SeqDe(_, _)
SeqDe(f, ps) ==
    IF ps = {} THEN <<>>
    ELSE LET p == CHOOSE q \in ps : \A r \in ps : q <= r
         IN  <<f[p]>> \o SeqDe(f, ps \ {p})

CriarX(s, n) ==
    LET f == [p \in 1..Len(s) |->
                 [t |-> s[p].t, lags |-> [i \in 1..n |-> LinhaLags(s, n, p)[i][1]]]]
    IN  SeqDe(f, LinhasValidas(s, n))

CriarY(s, n) ==
    LET f == [p \in 1..Len(s) |-> [t |-> s[p].t, v |-> s[p].v]]
    IN  SeqDe(f, LinhasValidas(s, n))

\* ------------------------------------------------- RandomForestRegressor
\* A fitted model keeps its training rows; prediction is piecewise constant
\* over the feature space and returns a training target: the target of the
\* first training row nearest to the query.
Fit(Xs, ys) == [X |-> Xs, y |-> ys]

RECURSIVE Dist(_, _)
Dist(a, b) ==
    IF a = <<>> \/ b = <<>> THEN 0
    ELSE Abs(a[1] - b[1]) + Dist(Tail(a), Tail(b))

Predict(m, x) ==
    LET n == Len(m.X)
        melhor == CHOOSE i \in 1..n :
                     /\ \A j \in 1..n : Dist(m.X[i].lags, x) <= Dist(m.X[j].lags, x)
                     /\ \A j \in 1..(i - 1) : Dist(m.X[j].lags, x) > Dist(m.X[i].lags, x)
    IN  m.y[melhor].v

\* ------------------------------------------------------------- forecast
\* mutant: the first feature row instead of the most recent one
HistoricoRecente_Primeira(Xs) == Xs[1].lags

\* X_test.iloc[-1].values.tolist(): the lags of the most recent feature row
HistoricoRecente(Xs) == Xs[Len(Xs)].lags

\* drop the oldest lag, insert the new prediction as lag 1
DeslocaJanela(janela, p) == <<p>> \o SubSeq(janela, 1, Len(janela) - 1)

\* h recursive steps from window w with model m: <<windows, predictions>>
RECURSIVE Recursivo(_, _, _)
Recursivo(m, w, h) ==
    IF h = 0 THEN [janelas |-> <<>>, valores |-> <<>>]
    ELSE LET p == Predict(m, w)
             resto == Recursivo(m, DeslocaJanela(w, p), h - 1)
         IN  [janelas |-> <<w>> \o resto.janelas, valores |-> <<p>> \o resto.valores]

\* ----------------------------------------------------------------- Init
Celulas == {NaN} \cup {<<v>> : v \in Precos}

\* the scenario series of the specification: 16 weeks, four price levels
CenarioSerie ==
    [i \in 1..16 |-> <<IF i <= 4 THEN 10 ELSE IF i <= 8 THEN 11
                       ELSE IF i <= 12 THEN 12 ELSE 13>>]

\* no concurrent invocations are running
OciosoC ==
    /\ dados_brutos = None /\ campos = None /\ instantaneo = None
    /\ invocacao = <<>> /\ pcC = <<>> /\ locaisC = <<>> /\ retC = <<>>
    /\ sobrepostas = FALSE

\* everything outside the forecast, the lead-lag analysis, the wrappers and
\* the stationarity check is idle
\* no session scope is open
OciosoS ==
    /\ pcS = "ocioso" /\ session = None /\ banco = {} /\ bancoAntes = {}
    /\ fimCorpo = "" /\ excecaoS = "nenhuma" /\ chamadasS = <<>>
    /\ propagadaS = "nenhuma" /\ escopos = 0

\* no connection class in use
OciosoG ==
    /\ instancia = None /\ objetos = <<>> /\ gerenciador = None
    /\ inicializacoes = None /\ pcG = None /\ opG = None /\ retG = None
    /\ devolvidas = {} /\ chamadasG = 0 /\ aposFechar = FALSE

\* no migration is running
OciosoM ==
    /\ pcM = "ocioso" /\ mestre = None /\ df_clean = <<>> /\ indiceM = 0
    /\ pendentesM = <<>> /\ icb_data = <<>> /\ records_failed = 0

OciosoResto == OciosoC /\ OciosoS /\ OciosoG /\ OciosoM

\* no stationarity check is running on its own
OciosoE ==
    /\ pcE = "ocioso" /\ serieE = None /\ oraculoE = None
    /\ p_valor = 0 /\ serie_estacionaria = None /\ testesE = <<>>
    /\ retornoE = None /\ saidaE = "nenhuma"

\* no call of analisar_lideranca_preco made yet
SemLigacao == [m |-> 0, freq |-> "", max_lag |-> ""]

\* no wrapper is running
OciosoR ==
    /\ pcR = "ocioso" /\ chamada = "nenhuma"
    /\ retornoR = None /\ resultadoR = None
    /\ retornos = <<>> /\ results = <<>>
    /\ falhaR = "nenhuma" /\ falhas = <<>>
    /\ dados_brutosR = None /\ levantou = "nenhuma"
    /\ ligacao = SemLigacao

\* no lead-lag analysis is running
OciosoL ==
    /\ pcL = "ocioso" /\ varianteL = "impressao"
    /\ produtoExiste = TRUE /\ estabsExistem = TRUE
    /\ pivot = [A |-> <<>>, B |-> <<>>] /\ max_lag = 1
    /\ oraculo = [x_A_y_B |-> <<>>, x_B_y_A |-> <<>>, falha |-> FALSE]
    /\ dados_pares = None /\ serie_A_est = None /\ serie_B_est = None
    /\ dados_estacionarios = None
    /\ granger_A_causa_B = <<>> /\ granger_B_causa_A = <<>>
    /\ p_valor_min_A_B = 0 /\ p_valor_min_B_A = 0
    /\ sigAB = FALSE /\ sigBA = FALSE
    /\ ccf_vals = <<>> /\ max_corr_lag = 0 /\ max_corr_val = <<0, 1>>
    /\ retorno = None /\ resultados_q2 = None /\ exibido = None
    /\ saidaL = "nenhuma"


InitLimpo ==
    /\ serie = None /\ X = <<>> /\ y = <<>>
    /\ X_train = <<>> /\ X_test = <<>> /\ y_train = <<>> /\ y_test = <<>>
    /\ modelo = None /\ predicoes = <<>> /\ modelo_final = None
    /\ historico = <<>> /\ previsoes = <<>> /\ saida = "nenhuma"
    /\ mape = None /\ conclusao = "nenhuma"

InitQ1 ==
    /\ InitLimpo /\ pc = "inicio"
    /\ OciosoL /\ OciosoR /\ OciosoE /\ OciosoResto
    /\ variante \in {"preco_ml", "categoria"}
    /\ \/ /\ semanal \in SeqsUpTo(Celulas, MaxLen)
          /\ colunaExiste \in (IF semanal = <<>> THEN BOOLEAN ELSE {TRUE})
          /\ n_lags \in 1..MaxLags
          /\ test_size \in (IF variante = "preco_ml" THEN 0..MaxTeste ELSE 1..MaxTeste)
       \/ /\ semanal = CenarioSerie
          /\ colunaExiste = TRUE
          /\ n_lags = NLagsPadrao
          /\ test_size = 4
    /\ horizonte \in (IF variante = "preco_ml" THEN {1} ELSE 1..MaxHorizonte)

\* -------------------------------------------------------------- actions
\* mutant: the filtered rows are never found empty
SelecaoVazia_Nunca(sem) == FALSE

\* lines 59-60: dados_filtrados.empty, no observation carries the flag
SelecaoVazia(sem) == sem = <<>>

\* lines 118-123: build the series, stop when there is none
Inicio ==
    /\ pc = "inicio"
    /\ IF ~colunaExiste
       THEN serie' = None /\ saida' = "coluna_nao_encontrada" /\ pc' = "fim"
       ELSE IF SelecaoVazia(semanal)
       THEN serie' = None /\ saida' = "nenhum_dado" /\ pc' = "fim"
       ELSE /\ serie' = PrepararSerie(semanal)
            /\ IF serie' = <<>>
               THEN saida' = "serie_vazia" /\ pc' = "fim"
               ELSE saida' = saida /\ pc' = "lags"
    /\ UNCHANGED foraQ1
    /\ UNCHANGED <<mape, conclusao, variante, colunaExiste, semanal, n_lags, test_size, horizonte,
                   X, y, X_train, X_test, y_train, y_test, modelo, predicoes,
                   modelo_final, historico, previsoes>>

\* line 126
CriarFeaturesLags ==
    /\ pc = "lags"
    /\ X' = CriarX(serie, n_lags)
    /\ y' = CriarY(serie, n_lags)
    /\ pc' = "guarda"
    /\ UNCHANGED foraQ1
    /\ UNCHANGED <<mape, conclusao, variante, colunaExiste, semanal, n_lags, test_size, horizonte,
                   serie, X_train, X_test, y_train, y_test, modelo, predicoes,
                   modelo_final, historico, previsoes, saida>>

\* mutant: the lag depth is left out of the sufficiency check
DadosInsuficientes_SemLags(ys, k, n) == Len(ys) < k

\* line 128: len(y) < test_size_semanas + n_lags
DadosInsuficientes(ys, k, n) == Len(ys) < k + n

\* lines 128-131
Guarda ==
    /\ pc = "guarda"
    /\ variante = "preco_ml"
    /\ IF DadosInsuficientes(y, test_size, n_lags)
       THEN saida' = "dados_insuficientes" /\ pc' = "fim"
       ELSE saida' = saida /\ pc' = "divisao"
    /\ UNCHANGED foraQ1
    /\ UNCHANGED <<mape, conclusao, variante, colunaExiste, semanal, n_lags, test_size, horizonte,
                   serie, X, y, X_train, X_test, y_train, y_test, modelo, predicoes,
                   modelo_final, historico, previsoes>>

\* the category forecast: fails when the training prefix is empty
PrefixoVazio(ys, k) == Len(ys) <= k

GuardaCategoria ==
    /\ pc = "guarda"
    /\ variante = "categoria"
    /\ IF PrefixoVazio(y, test_size)
       THEN saida' = "dados_insuficientes" /\ pc' = "fim"
       ELSE saida' = saida /\ pc' = "divisao"
    /\ UNCHANGED foraQ1
    /\ UNCHANGED <<mape, conclusao, variante, colunaExiste, semanal, n_lags, test_size, horizonte,
                   serie, X, y, X_train, X_test, y_train, y_test, modelo, predicoes,
                   modelo_final, historico, previsoes>>

\* mutant: the training set keeps the held-out rows
TreinoDe_Tudo(s, k) == s

\* lines 134-135
TreinoDe(s, k) == IlocAteMenos(s, k)
TesteDe(s, k) == IlocDesdeMenos(s, k)

Divisao ==
    /\ pc = "divisao"
    /\ X_train' = TreinoDe(X, test_size)
    /\ X_test' = TesteDe(X, test_size)
    /\ y_train' = TreinoDe(y, test_size)
    /\ y_test' = TesteDe(y, test_size)
    /\ pc' = "treino"
    /\ UNCHANGED foraQ1
    /\ UNCHANGED <<mape, conclusao, variante, colunaExiste, semanal, n_lags, test_size, horizonte,
                   serie, X, y, modelo, predicoes, modelo_final, historico,
                   previsoes, saida>>

\* sklearn's mean_absolute_percentage_error: the mean of
\* |y_pred - y_true| / max(|y_true|, eps), eps = np.finfo(float64).eps. The
\* mean is kept exact as (grande / eps + num / den) / n: grande sums the
\* errors on the zero actuals, num / den the relative errors on the others
RECURSIVE MeanAbsolutePercentageError(_, _)
MeanAbsolutePercentageError(y_true, y_pred) ==
    IF y_true = <<>> THEN [grande |-> 0, num |-> 0, den |-> 1, n |-> 0]
    ELSE LET r == MeanAbsolutePercentageError(Tail(y_true), Tail(y_pred))
             a == Abs(y_true[1].v)
             e == Abs(y_pred[1] - y_true[1].v)
         IN  IF a = 0
             THEN [grande |-> r.grande + e, num |-> r.num, den |-> r.den,
                   n |-> r.n + 1]
             ELSE [grande |-> r.grande, num |-> r.num * a + e * r.den,
                   den |-> r.den * a, n |-> r.n + 1]

\* the category forecast: MAPE is a state of its own, "indefinido", when an
\* actual value of the test window is zero
MapeDaCategoria(y_true, y_pred) ==
    IF \E i \in 1..Len(y_true) : y_true[i].v = 0
    THEN [indefinido |-> TRUE,
          valor |-> MeanAbsolutePercentageError(<<>>, <<>>)]
    ELSE [indefinido |-> FALSE,
          valor |-> MeanAbsolutePercentageError(y_true, y_pred)]

\* line 146: the score is always a number
MapeNumerico(y_true, y_pred) ==
    [indefinido |-> FALSE, valor |-> MeanAbsolutePercentageError(y_true, y_pred)]

\* 0.10 as a fraction
DezPorCento == <<1, 10>>

\* line 152: mape < 0.10; an error on a zero actual, divided by eps, is
\* beyond any threshold
MapeAbaixoDe(m, lim) ==
    m.grande = 0 /\ m.num * lim[2] < lim[1] * m.den * m.n

\* lines 152-155; no judgement without a number
Conclusao(m) ==
    IF m.indefinido THEN "nenhuma"
    ELSE IF MapeAbaixoDe(m.valor, DezPorCento) THEN "atingido"
    ELSE "nao_atingido"

\* lines 141-155: fit on the training prefix (fit raises on zero samples),
\* predict the test window, score it
TreinarAvaliar ==
    /\ pc = "treino"
    /\ IF X_train = <<>>
       THEN /\ saida' = "excecao" /\ pc' = "fim"
            /\ UNCHANGED <<modelo, predicoes, mape, conclusao>>
       ELSE /\ modelo' = Fit(X_train, y_train)
            /\ predicoes' = [i \in 1..Len(X_test) |-> Predict(modelo', X_test[i].lags)]
            /\ mape' = <<IF variante = "categoria"
                          THEN MapeDaCategoria(y_test, predicoes')
                          ELSE MapeNumerico(y_test, predicoes')>>
            /\ conclusao' = Conclusao(mape'[1])
            /\ saida' = saida /\ pc' = "previsao"
    /\ UNCHANGED foraQ1
    /\ UNCHANGED <<variante, colunaExiste, semanal, n_lags, test_size, horizonte,
                   serie, X, y, X_train, X_test, y_train, y_test,
                   modelo_final, historico, previsoes>>

\* the model behind the future forecast of analisar_previsao_preco_ml (line 160)
ModeloDaPrevisao == modelo

\* lines 158-163
PrevisaoFutura ==
    /\ pc = "previsao"
    /\ variante = "preco_ml"
    /\ modelo_final' = ModeloDaPrevisao
    /\ historico' = <<HistoricoRecente(X_test)>>
    /\ previsoes' = <<Predict(modelo_final', historico'[1])>>
    /\ saida' = "ok" /\ pc' = "fim"
    /\ UNCHANGED foraQ1
    /\ UNCHANGED <<mape, conclusao, variante, colunaExiste, semanal, n_lags, test_size, horizonte,
                   serie, X, y, X_train, X_test, y_train, y_test, modelo, predicoes>>

\* forecasting mode of the category forecast: retrain on the full table,
\* then h recursive steps from the most recent feature row
PrevisaoRecursiva ==
    /\ pc = "previsao"
    /\ variante = "categoria"
    /\ modelo_final' = Fit(X, y)
    /\ LET r == Recursivo(modelo_final', HistoricoRecente(X), horizonte)
       IN  historico' = r.janelas /\ previsoes' = r.valores
    /\ saida' = "ok" /\ pc' = "fim"
    /\ UNCHANGED foraQ1
    /\ UNCHANGED <<mape, conclusao, variante, colunaExiste, semanal, n_lags, test_size, horizonte,
                   serie, X, y, X_train, X_test, y_train, y_test, modelo, predicoes>>

NextQ1 ==
    \/ Inicio
    \/ CriarFeaturesLags
    \/ Guarda
    \/ GuardaCategoria
    \/ Divisao
    \/ TreinarAvaliar
    \/ PrevisaoFutura
    \/ PrevisaoRecursiva

Spec == InitQ1 /\ [][NextQ1]_vars

\* =========================================================== lead-lag (Q2)
\* --------------------------------------------------- resample and align
\* DataFrame.dropna() on the pair: the rows where both columns are defined,
\* as [ini |-> first period, A |-> values, B |-> values]
AlinharPares(pv) ==
    LET a == Ffill(pv.A)
        b == Ffill(pv.B)
        bons == {p \in 1..Len(a) : a[p] # NaN /\ b[p] # NaN}
        fa == [p \in 1..Len(a) |-> a[p][1]]
        fb == [p \in 1..Len(b) |-> b[p][1]]
    IN  [ini |-> IF bons = {} THEN 0
                 ELSE (CHOOSE q \in bons : \A r \in bons : q <= r) - 1,
         A |-> SeqDe(fa, bons),
         B |-> SeqDe(fb, bons)]

\* mutant: the sample-size check forgets the lag depth
PoucosPares_SemLag(dp, m) == Len(dp.A) < MinimoPares

\* line 196: len(dados_pares) < max_lag + 20
PoucosPares(dp, m) == Len(dp.A) < m + MinimoPares

\* ---------------------------------------------------------- stationarity
Constante(v) == \A i \in 1..Len(v) : v[i] = v[1]

\* serie.diff().dropna(): one entry fewer, the later periods kept
Diff(sr) ==
    [ini |-> sr.ini + 1,
     vals |-> [i \in 1..(Len(sr.vals) - 1) |-> sr.vals[i + 1] - sr.vals[i]]]

\* what adfuller can answer on a series: it raises on a constant input,
\* otherwise a p-value at or below 0.05 ("estac") or above it ("nao")
RespostasADF(sr) ==
    IF Len(sr.vals) = 0 \/ Constante(sr.vals) THEN {"erro"}
    ELSE {"estac", "nao", "erro"}

\* pd.concat([serie_A_est, serie_B_est], axis=1).dropna(): the common periods
Concat(sa, sb) ==
    LET ini == IF sa.ini > sb.ini THEN sa.ini ELSE sb.ini
        fimA == sa.ini + Len(sa.vals)
        fimB == sb.ini + Len(sb.vals)
        fim == IF fimA < fimB THEN fimA ELSE fimB
        n == IF fim > ini THEN fim - ini ELSE 0
    IN  [ini |-> ini,
         A |-> [i \in 1..n |-> sa.vals[ini - sa.ini + i]],
         B |-> [i \in 1..n |-> sb.vals[ini - sb.ini + i]]]

\* ---------------------------------------------------------------- Granger
\* grangercausalitytests(data[[c1, c2]], maxlag): tests whether the SECOND
\* column Granger-causes the FIRST; one p-value per lag order 1..maxlag
GrangerCausalityTests(colunas, maxlag) ==
    LET tab == IF colunas = <<"B", "A">> THEN oraculo.x_A_y_B ELSE oraculo.x_B_y_A
    IN  [lag \in 1..maxlag |-> tab[lag]]

\* mutant: the columns of the first test in the order of the second
ColunasACausaB_Trocadas == <<"A", "B">>

\* line 215: dados_estacionarios[[estab_B, estab_A]]
ColunasACausaB == <<"B", "A">>

\* line 219: dados_estacionarios[[estab_A, estab_B]]
ColunasBCausaA == <<"A", "B">>

\* lines 222-223: min(... for lag in range(1, max_lag + 1))
MinP(tab, m) == CHOOSE p \in {tab[l] : l \in 1..m} : \A l \in 1..m : p <= tab[l]

\* mutant: the level itself counts as significant
Significante_Inclusivo(p) == p <= Alfa

\* lines 227 and 232, dashboard lines 359 and 367: p < 0.05
Significante(p) == p < Alfa

\* ------------------------------------------------------ cross-correlation
RECURSIVE Soma(_)
Soma(v) == IF v = <<>> THEN 0 ELSE v[1] + Soma(Tail(v))

\* x - x.mean(), times len(x) to stay in the integers
Centrado(v) == LET n == Len(v) s == Soma(v) IN [i \in 1..n |-> n * v[i] - s]

\* correlate(xo, yo, "full")[n - 1:][j]: the sum over t of xo[t + j] * yo[t]
CcovNum(xo, yo, j) ==
    LET n == Len(xo)
    IN  Soma([t \in 1..(n - j) |-> xo[t + j] * yo[t]])

\* ccf(x, y, adjusted=True), lags 0..m: coefficient j is the pair
\* <<numerator, n - j>>; the factor std(x) * std(y) * n^2, positive and the
\* same at every lag, is left out
Ccf(xs, ys, m) ==
    LET xo == Centrado(xs)
        yo == Centrado(ys)
        n == Len(xs)
    IN  [i \in 1..(m + 1) |-> <<CcovNum(xo, yo, i - 1), n - (i - 1)>>]

\* np.abs(a) > np.abs(b) on coefficients
AbsMaior(a, b) == Abs(a[1]) * b[2] > Abs(b[1]) * a[2]

\* mutant: the last of the largest entries
ArgMax_Ultimo(v) ==
    (CHOOSE i \in 1..Len(v) :
        /\ \A j \in 1..Len(v) : ~AbsMaior(v[j], v[i])
        /\ \A j \in (i + 1)..Len(v) : AbsMaior(v[i], v[j])) - 1

\* np.argmax(np.abs(v)): position of the first largest entry, from 0
ArgMax(v) ==
    (CHOOSE i \in 1..Len(v) :
        /\ \A j \in 1..Len(v) : ~AbsMaior(v[j], v[i])
        /\ \A j \in 1..(i - 1) : AbsMaior(v[i], v[j])) - 1

\* ccf_vals[1:max_lag+1]
FatiaLags(cv, m) == Fatia(cv, 1, IF m + 1 < Len(cv) THEN m + 1 ELSE Len(cv))


\* --------------------------------------------------------- what is returned
SemErro == "None"

\* the printing variant returns nothing on every path
RetNone ==
    [tipo |-> "None", dados_pares_plot |-> None, ccf_df |-> <<>>,
     p_A_causa_B |-> <<>>, p_B_causa_A |-> <<>>, erro |-> SemErro]

\* an exception leaves the analysis
RetExcecao ==
    [tipo |-> "excecao", dados_pares_plot |-> None, ccf_df |-> <<>>,
     p_A_causa_B |-> <<>>, p_B_causa_A |-> <<>>, erro |-> SemErro]

\* the ID-based variant returns (dados_pares_plot, ccf_df, p_A_causa_B,
\* p_B_causa_A, erro): data on success, the message alone on failure
RetErro(msg) ==
    [tipo |-> "tupla", dados_pares_plot |-> None, ccf_df |-> <<>>,
     p_A_causa_B |-> <<>>, p_B_causa_A |-> <<>>, erro |-> msg]

RetSucesso(dp, cv, m, pab, pba) ==
    [tipo |-> "tupla", dados_pares_plot |-> dp,
     ccf_df |-> [l \in 1..m |-> [Lag |-> l, CCF |-> cv[l + 1]]],
     p_A_causa_B |-> <<pab>>, p_B_causa_A |-> <<pba>>, erro |-> SemErro]

\* an early `return` after a printed message
Retorna(v, msg) == IF v = "impressao" THEN RetNone ELSE RetErro(msg)

\* dashboard.py lines 154-169: unpacking None or an exception inside the call
\* lands in the except branch; a truthy erro is passed on alone
RodarAnaliseQ2(ret) ==
    IF ret.tipo # "tupla" THEN [erro |-> "Erro inesperado na analise Q2"]
    ELSE IF ret.erro # SemErro /\ ret.erro # "" THEN [erro |-> ret.erro]
    ELSE [dados_pares_plot |-> ret.dados_pares_plot, ccf_df |-> ret.ccf_df,
          p_A_causa_B |-> ret.p_A_causa_B, p_B_causa_A |-> ret.p_B_causa_A,
          erro |-> SemErro]

\* dashboard.py lines 382-383: ccf_df['CCF'].abs().idxmax(), then its Lag
MaxLagVal(df) ==
    LET i == CHOOSE r \in 1..Len(df) :
                 /\ \A j \in 1..Len(df) : ~AbsMaior(df[j].CCF, df[r].CCF)
                 /\ \A j \in 1..(r - 1) : AbsMaior(df[r].CCF, df[j].CCF)
    IN  df[i].Lag

\* dashboard.py lines 334-388: the error, or the two verdicts and the lag
Exibir(rq) ==
    IF rq.erro # SemErro THEN [erro |-> rq.erro]
    ELSE [A_puxa_B |-> Significante(rq.p_A_causa_B[1]),
          B_puxa_A |-> Significante(rq.p_B_causa_A[1]),
          max_lag_val |-> MaxLagVal(rq.ccf_df)]

\* ------------------------------------------------------------------- Init
PValores == {1, 5, 9}

\* a weekly price series: the base price 0 with a pattern laid over it
Padrao(n, semente, desloc) ==
    [t \in 1..n |-> IF desloc < t /\ t <= desloc + Len(semente)
                    THEN semente[t - desloc] ELSE 0]

Sementes ==
    {sm \in SeqsUpTo(1..2, MaxSemente) : sm # <<>>}

Embrulha(v) == [i \in 1..Len(v) |-> <<v[i]>>]

Tabelas(m) == [1..m -> PValores]

TabelaNeutra(m) == [l \in 1..m |-> Alfa]

InitLimpoL ==
    /\ pcL = "inicio"
    /\ dados_pares = None /\ serie_A_est = None /\ serie_B_est = None
    /\ dados_estacionarios = None
    /\ granger_A_causa_B = <<>> /\ granger_B_causa_A = <<>>
    /\ p_valor_min_A_B = 0 /\ p_valor_min_B_A = 0
    /\ sigAB = FALSE /\ sigBA = FALSE
    /\ ccf_vals = <<>> /\ max_corr_lag = 0 /\ max_corr_val = <<0, 1>>
    /\ retorno = None /\ resultados_q2 = None /\ exibido = None
    /\ saidaL = "nenhuma"

\* many pairs of series, one answer of the Granger test
InitSeries ==
    /\ max_lag \in 1..MaxLagQ2
    /\ produtoExiste = TRUE /\ estabsExistem = TRUE
    /\ \E sa \in Sementes, sb \in Sementes, d \in 0..MaxDesloc :
          pivot = [A |-> Embrulha(Padrao(MinimoPares + MaxLagQ2, sa, 1)),
                   B |-> Embrulha(Padrao(MinimoPares + MaxLagQ2, sb, d))]
    /\ oraculo = [x_A_y_B |-> TabelaNeutra(max_lag),
                  x_B_y_A |-> TabelaNeutra(max_lag), falha |-> FALSE]

\* one pair of series, every answer of the Granger test, the failing inputs
InitOraculo ==
    /\ max_lag \in 1..MaxLagQ2
    /\ \E n \in {MinimoPares + MaxLagQ2 - 1, MinimoPares + MaxLagQ2},
          nan \in 0..1 :
          pivot = [A |-> Embrulha(Padrao(n, <<1>>, 1)),
                   B |-> [i \in 1..nan |-> NaN]
                             \o Embrulha(Padrao(n - nan, <<2, 1>>, 3))]
    /\ \/ /\ produtoExiste = TRUE /\ estabsExistem = TRUE
          /\ \E ab \in Tabelas(max_lag), ba \in Tabelas(max_lag) :
                oraculo = [x_A_y_B |-> ab, x_B_y_A |-> ba, falha |-> FALSE]
       \/ /\ \E par \in {<<FALSE, TRUE>>, <<TRUE, FALSE>>, <<TRUE, TRUE>>} :
                produtoExiste = par[1] /\ estabsExistem = par[2]
          /\ oraculo = [x_A_y_B |-> TabelaNeutra(max_lag),
                        x_B_y_A |-> TabelaNeutra(max_lag),
                        falha |-> (produtoExiste /\ estabsExistem)]

OciosoQ1 ==
    /\ InitLimpo /\ pc = "ocioso"
    /\ variante = "preco_ml" /\ colunaExiste = TRUE /\ semanal = <<>>
    /\ n_lags = 1 /\ test_size = 0 /\ horizonte = 1

InitL ==
    /\ OciosoQ1 /\ OciosoR /\ OciosoE /\ OciosoResto
    /\ InitLimpoL
    /\ varianteL \in {"impressao", "tupla"}
    /\ (InitSeries \/ InitOraculo)


\* ---------------------------------------------------------------- actions
\* the analysis ends here: what it returns and the message it printed
Termina(ret, msg) ==
    /\ retorno' = ret /\ saidaL' = msg /\ pcL' = "retornou"

\* lines 176-190
FiltrarPivotar ==
    /\ pcL = "inicio"
    /\ IF ~produtoExiste
       THEN Termina(Retorna(varianteL, "produto_nao_encontrado"),
                    "produto_nao_encontrado")
       ELSE IF ~estabsExistem
       THEN Termina(Retorna(varianteL, "estabelecimento_sem_dados"),
                    "estabelecimento_sem_dados")
       ELSE pcL' = "alinhar" /\ UNCHANGED <<retorno, saidaL>>
    /\ UNCHANGED foraL
    /\ UNCHANGED <<varianteL, produtoExiste, estabsExistem, pivot, max_lag, oraculo,
                   dados_pares, serie_A_est, serie_B_est, dados_estacionarios,
                   granger_A_causa_B, granger_B_causa_A, p_valor_min_A_B,
                   p_valor_min_B_A, sigAB, sigBA, ccf_vals, max_corr_lag,
                   max_corr_val, resultados_q2, exibido>>

\* lines 192-199
Alinhar ==
    /\ pcL = "alinhar"
    /\ dados_pares' = AlinharPares(pivot)
    /\ IF PoucosPares(dados_pares', max_lag)
       THEN Termina(Retorna(varianteL, "dados_insuficientes"), "dados_insuficientes")
       ELSE pcL' = "adfA" /\ UNCHANGED <<retorno, saidaL>>
    /\ UNCHANGED foraL
    /\ UNCHANGED <<varianteL, produtoExiste, estabsExistem, pivot, max_lag, oraculo,
                   serie_A_est, serie_B_est, dados_estacionarios,
                   granger_A_causa_B, granger_B_causa_A, p_valor_min_A_B,
                   p_valor_min_B_A, sigAB, sigBA, ccf_vals, max_corr_lag,
                   max_corr_val, resultados_q2, exibido>>

\* lines 91-110: the ways _verificar_estacionariedade can end on a series
VerificarEstacionariedade(sr) ==
    {[erro |-> TRUE, serie |-> sr]}
    \cup (IF "estac" \in RespostasADF(sr)
          THEN {[erro |-> FALSE, serie |-> sr]} ELSE {})
    \cup (IF "nao" \in RespostasADF(sr)
          THEN {[erro |-> (r2 = "erro"), serie |-> Diff(sr)] :
                    r2 \in RespostasADF(Diff(sr))}
          ELSE {})

\* line 202
VerificarA ==
    /\ pcL = "adfA"
    /\ \E r \in VerificarEstacionariedade([ini |-> dados_pares.ini,
                                           vals |-> dados_pares.A]) :
          IF r.erro
          THEN Termina(RetExcecao, "excecao") /\ UNCHANGED serie_A_est
          ELSE /\ serie_A_est' = r.serie
               /\ pcL' = "adfB" /\ UNCHANGED <<retorno, saidaL>>
    /\ UNCHANGED foraL
    /\ UNCHANGED <<varianteL, produtoExiste, estabsExistem, pivot, max_lag, oraculo,
                   dados_pares, serie_B_est, dados_estacionarios,
                   granger_A_causa_B, granger_B_causa_A, p_valor_min_A_B,
                   p_valor_min_B_A, sigAB, sigBA, ccf_vals, max_corr_lag,
                   max_corr_val, resultados_q2, exibido>>

\* lines 203-207
VerificarB ==
    /\ pcL = "adfB"
    /\ \E r \in VerificarEstacionariedade([ini |-> dados_pares.ini,
                                           vals |-> dados_pares.B]) :
          IF r.erro
          THEN /\ Termina(RetExcecao, "excecao")
               /\ UNCHANGED <<serie_B_est, dados_estacionarios>>
          ELSE /\ serie_B_est' = r.serie
               /\ dados_estacionarios' = Concat(serie_A_est, serie_B_est')
               /\ pcL' = "granger" /\ UNCHANGED <<retorno, saidaL>>
    /\ UNCHANGED foraL
    /\ UNCHANGED <<varianteL, produtoExiste, estabsExistem, pivot, max_lag, oraculo,
                   dados_pares, serie_A_est,
                   granger_A_causa_B, granger_B_causa_A, p_valor_min_A_B,
                   p_valor_min_B_A, sigAB, sigBA, ccf_vals, max_corr_lag,
                   max_corr_val, resultados_q2, exibido>>

\* lines 209-235: the two tests, the two minima, the two verdicts
Granger ==
    /\ pcL = "granger"
    /\ IF oraculo.falha
       THEN /\ Termina(RetExcecao, "excecao")
            /\ UNCHANGED <<granger_A_causa_B, granger_B_causa_A, p_valor_min_A_B,
                           p_valor_min_B_A, sigAB, sigBA>>
       ELSE /\ granger_A_causa_B' = GrangerCausalityTests(ColunasACausaB, max_lag)
            /\ granger_B_causa_A' = GrangerCausalityTests(ColunasBCausaA, max_lag)
            /\ p_valor_min_A_B' = MinP(granger_A_causa_B', max_lag)
            /\ p_valor_min_B_A' = MinP(granger_B_causa_A', max_lag)
            /\ sigAB' = Significante(p_valor_min_A_B')
            /\ sigBA' = Significante(p_valor_min_B_A')
            /\ pcL' = "ccf" /\ UNCHANGED <<retorno, saidaL>>
    /\ UNCHANGED foraL
    /\ UNCHANGED <<varianteL, produtoExiste, estabsExistem, pivot, max_lag, oraculo,
                   dados_pares, serie_A_est, serie_B_est, dados_estacionarios,
                   ccf_vals, max_corr_lag, max_corr_val, resultados_q2, exibido>>

\* line 238: the two series handed to ccf
CcfEntrada == <<serie_A_est.vals, serie_B_est.vals>>

\* lines 237-247: ccf raises when its two inputs differ in length
CorrelacaoCruzada ==
    /\ pcL = "ccf"
    /\ IF Len(CcfEntrada[1]) # Len(CcfEntrada[2])
       THEN /\ Termina(RetExcecao, "excecao")
            /\ UNCHANGED <<ccf_vals, max_corr_lag, max_corr_val>>
       ELSE /\ ccf_vals' = Ccf(CcfEntrada[1], CcfEntrada[2], max_lag)
            /\ max_corr_lag' = ArgMax(FatiaLags(ccf_vals', max_lag)) + 1
            /\ max_corr_val' = ccf_vals'[max_corr_lag' + 1]
            /\ Termina(IF varianteL = "impressao" THEN RetNone
                       ELSE RetSucesso(dados_pares, ccf_vals', max_lag,
                                       p_valor_min_A_B, p_valor_min_B_A),
                       "ok")
    /\ UNCHANGED foraL
    /\ UNCHANGED <<varianteL, produtoExiste, estabsExistem, pivot, max_lag, oraculo,
                   dados_pares, serie_A_est, serie_B_est, dados_estacionarios,
                   granger_A_causa_B, granger_B_causa_A, p_valor_min_A_B,
                   p_valor_min_B_A, sigAB, sigBA, resultados_q2, exibido>>

\* dashboard.py lines 151-169
EmpacotarQ2 ==
    /\ pcL = "retornou"
    /\ resultados_q2' = RodarAnaliseQ2(retorno)
    /\ pcL' = "empacotado"
    /\ UNCHANGED foraL
    /\ UNCHANGED <<varianteL, produtoExiste, estabsExistem, pivot, max_lag, oraculo,
                   dados_pares, serie_A_est, serie_B_est, dados_estacionarios,
                   granger_A_causa_B, granger_B_causa_A, p_valor_min_A_B,
                   p_valor_min_B_A, sigAB, sigBA, ccf_vals, max_corr_lag,
                   max_corr_val, retorno, exibido, saidaL>>

\* dashboard.py lines 330-388
ExibirQ2 ==
    /\ pcL = "empacotado"
    /\ exibido' = Exibir(resultados_q2)
    /\ pcL' = "exibido"
    /\ UNCHANGED foraL
    /\ UNCHANGED <<varianteL, produtoExiste, estabsExistem, pivot, max_lag, oraculo,
                   dados_pares, serie_A_est, serie_B_est, dados_estacionarios,
                   granger_A_causa_B, granger_B_causa_A, p_valor_min_A_B,
                   p_valor_min_B_A, sigAB, sigBA, ccf_vals, max_corr_lag,
                   max_corr_val, retorno, resultados_q2, saidaL>>

NextL ==
    \/ FiltrarPivotar
    \/ Alinhar
    \/ VerificarA
    \/ VerificarB
    \/ Granger
    \/ CorrelacaoCruzada
    \/ EmpacotarQ2
    \/ ExibirQ2

SpecLider == InitL /\ [][NextL]_vars


\* ============================================================ result objects
\* numbers of the pipeline metrics are kept in hundredths
Cem == 100
Objetivo == 10

\* main.py lines 58-64
categorias ==
    <<"Classe_Carnes Vermelhas", "Classe_Graos & Massas", "Classe_Laticinios",
      "Classe_Padaria & Cozinha", "Classe_Vegetais">>

MapeValores == {Objetivo - 1, Objetivo, Objetivo + 1}

\* what analisar_previsao_categoria hands back: (df_plot, mse, mae, mape,
\* df_futuro, erro), the data on success and the message alone on failure,
\* or an exception
RetornosCategoria ==
    {[tipo |-> "excecao", df_plot |-> None, mse |-> None, mae |-> None,
      mape |-> None, df_futuro |-> None, erro |-> SemErro],
     [tipo |-> "tupla", df_plot |-> None, mse |-> None, mae |-> None,
      mape |-> None, df_futuro |-> None, erro |-> "dados_insuficientes"]}
    \cup {[tipo |-> "tupla", df_plot |-> <<"real_x_previsto">>, mse |-> <<4>>,
           mae |-> <<2>>, mape |-> <<mp>>, df_futuro |-> <<"previsao">>,
           erro |-> SemErro] : mp \in MapeValores}

\* what analisar_previsao_produto hands back: (df_plot, mse, mae, erro)
RetornosProduto ==
    {[tipo |-> "excecao", df_plot |-> None, mse |-> None, mae |-> None,
      erro |-> SemErro],
     [tipo |-> "tupla", df_plot |-> None, mse |-> None, mae |-> None,
      erro |-> "sem_dados"],
     [tipo |-> "tupla", df_plot |-> <<"real_x_previsto">>, mse |-> <<4>>,
      mae |-> <<2>>, erro |-> SemErro]}

\* what analisar_lideranca_preco hands back
RetornosLideranca ==
    {RetNone, RetExcecao, RetErro("dados_insuficientes")}
    \cup {RetSucesso([ini |-> 1, A |-> <<1, 2>>, B |-> <<2, 1>>],
                     <<<<0, 1>>, <<1, 1>>>>, 1, pab, pba) :
              pab \in PValores, pba \in PValores}

\* `if erro:` on the last element of the tuple
ErroVerdadeiro(ret) == ret.erro # SemErro /\ ret.erro # ""

\* dashboard.py lines 133-149
RodarAnaliseQ1(ret) ==
    IF ret.tipo # "tupla"
    THEN [df_plot |-> None, mse |-> None, mae |-> None,
          erro |-> "Erro inesperado na analise Q1"]
    ELSE IF ErroVerdadeiro(ret)
    THEN [df_plot |-> None, mse |-> None, mae |-> None, erro |-> ret.erro]
    ELSE [df_plot |-> ret.df_plot, mse |-> ret.mse, mae |-> ret.mae,
          erro |-> SemErro]

\* main.py lines 72-112: the entry of results for one category
ResultadoCategoria(ret) ==
    IF ret.tipo # "tupla" THEN [error |-> "excecao"]
    ELSE IF ErroVerdadeiro(ret) THEN [error |-> ret.erro]
    ELSE LET mape_percent == ret.mape[1] * Cem
         IN  [mse |-> ret.mse[1], mae |-> ret.mae[1], mape |-> ret.mape[1],
              mape_percent |-> mape_percent,
              objetivo_atingido |-> (mape_percent < Objetivo * Cem),
              predictions |-> IF ret.df_futuro # None THEN ret.df_futuro
                              ELSE None]

\* what can go wrong inside one analysis
Falhas == {"nenhuma", "teste_estatistico", "dataset", "coluna", "poucos_dados"}

\* what the analyzer call can produce when f went wrong: a failing test or
\* an unloaded dataset raises or is reported in the tuple; a missing column
\* or too little data is printed (None comes back) or reported in the tuple
RetornosDaFalha(rets, f) ==
    IF f = "nenhuma"
    THEN {r \in rets : r.tipo = "None" \/ (r.tipo = "tupla" /\ r.erro = SemErro)}
    ELSE IF f \in {"teste_estatistico", "dataset"}
    THEN {r \in rets : r.tipo = "excecao" \/ (r.tipo = "tupla" /\ r.erro # SemErro)}
    ELSE {r \in rets : r.tipo = "None" \/ (r.tipo = "tupla" /\ r.erro # SemErro)}

\* the exception raised inside the try block: by the statistical test, by
\* the use of dados_brutos = None, or by unpacking None into the tuple
ClassesLevantadas(ret, f) ==
    IF ret.tipo = "excecao"
    THEN (IF f = "teste_estatistico" THEN {"ValueError", "InfeasibleTestError"}
          ELSE {"TypeError"})
    ELSE IF ret.tipo = "None" THEN {"TypeError"}
    ELSE {"nenhuma"}

\* mutant: the handler names one class
CapturaExcecao_SoErroDeValor(e) == e = "ValueError"

\* `except Exception` (dashboard.py lines 147 and 167, main.py line 110)
CapturaExcecao(e) ==
    e \in {"ValueError", "TypeError", "AttributeError", "InfeasibleTestError",
           "FileNotFoundError", "OperationalError"}

\* __init__, lines 34-48: a dataset that does not load leaves dados_brutos
\* None, whatever was raised
CarregarDados(e) == IF e = "nenhuma" THEN <<"carregado">> ELSE None

InitR ==
    /\ OciosoQ1 /\ OciosoL /\ OciosoE /\ OciosoResto
    /\ pcR = "inicio"
    /\ chamada \in {"q1", "q2", "pipeline"}
    /\ retornoR = None /\ resultadoR = None
    /\ retornos = <<>> /\ results = <<>>
    /\ falhaR = "nenhuma" /\ falhas = <<>>
    /\ dados_brutosR = None /\ levantou = "nenhuma"
    /\ ligacao = SemLigacao

\* algotithms.py line 169, analisar_lideranca_preco(self, produto_id,
\* estab_A, estab_B, freq='W-MON', max_lag=8): the positional arguments of a
\* call are bound to the parameters in this order, the rest keep their
\* defaults
LigarParametros(posicionais) ==
    [freq |-> IF Len(posicionais) >= 4 THEN posicionais[4] ELSE "W-MON",
     max_lag |-> IF Len(posicionais) >= 5 THEN posicionais[5]
                 ELSE ToString(MaxLagPadrao)]

\* dashboard.py line 156: analisar_lideranca_preco(produto_id, estab_a_id,
\* estab_b_id, max_lag)
ChamadaDoPainel(m) ==
    LET l == LigarParametros(<<"produto_id", "estab_a_id", "estab_b_id",
                               ToString(m)>>)
    IN  [m |-> m, freq |-> l.freq, max_lag |-> l.max_lag]

\* dashboard.py lines 133-149
RodarQ1 ==
    /\ pcR = "inicio" /\ chamada = "q1"
    /\ \E f \in Falhas :
       \E ret \in RetornosDaFalha(RetornosProduto, f) :
       \E e \in ClassesLevantadas(ret, f) :
          /\ falhaR' = f
          /\ retornoR' = ret
          /\ IF e # "nenhuma" /\ ~CapturaExcecao(e)
             THEN levantou' = e /\ UNCHANGED resultadoR
             ELSE levantou' = levantou /\ resultadoR' = RodarAnaliseQ1(ret)
    /\ pcR' = "fim"
    /\ UNCHANGED ligacao
    /\ UNCHANGED <<chamada, retornos, results, falhas, dados_brutosR>>
    /\ UNCHANGED foraR

\* dashboard.py lines 151-169
RodarQ2 ==
    /\ pcR = "inicio" /\ chamada = "q2"
    /\ \E f \in Falhas :
       \E ret \in RetornosDaFalha(RetornosLideranca, f) :
       \E e \in ClassesLevantadas(ret, f) :
          /\ falhaR' = f
          /\ retornoR' = ret
          /\ IF e # "nenhuma" /\ ~CapturaExcecao(e)
             THEN levantou' = e /\ UNCHANGED resultadoR
             ELSE levantou' = levantou /\ resultadoR' = RodarAnaliseQ2(ret)
    /\ \E m \in 1..MaxLagQ2 : ligacao' = ChamadaDoPainel(m)
    /\ pcR' = "fim"
    /\ UNCHANGED <<chamada, retornos, results, falhas, dados_brutosR>>
    /\ UNCHANGED foraR

\* main.py line 55: the analyzer is built before the loop, outside any try
InicializarAnalisador ==
    /\ pcR = "inicio" /\ chamada = "pipeline"
    /\ \E e \in {"nenhuma", "FileNotFoundError", "ValueError"} :
          dados_brutosR' = CarregarDados(e)
    /\ pcR' = "laco"
    /\ UNCHANGED <<chamada, retornoR, resultadoR, retornos, results, falhaR,
                   falhas, levantou, ligacao>>
    /\ UNCHANGED foraR

\* main.py lines 68-112: one turn of the loop over the categories
ProcessarCategoria ==
    /\ pcR = "laco" /\ chamada = "pipeline"
    /\ Len(results) < Len(categorias)
    /\ \E f \in (IF dados_brutosR = None THEN {"dataset"}
                  ELSE Falhas \ {"dataset"}) :
       \E ret \in RetornosDaFalha(RetornosCategoria, f) :
       \E e \in ClassesLevantadas(ret, f) :
          /\ falhas' = Append(falhas, f)
          /\ retornos' = Append(retornos, ret)
          /\ IF e # "nenhuma" /\ ~CapturaExcecao(e)
             THEN /\ levantou' = e /\ pcR' = "fim"
                  /\ UNCHANGED results
             ELSE /\ levantou' = levantou /\ pcR' = pcR
                  /\ results' = Append(results,
                               [categoria |-> categorias[Len(results) + 1],
                                resultado |-> ResultadoCategoria(ret)])
    /\ UNCHANGED <<chamada, retornoR, resultadoR, falhaR, dados_brutosR,
                   ligacao>>
    /\ UNCHANGED foraR

\* main.py line 114
RetornarResults ==
    /\ pcR = "laco" /\ chamada = "pipeline"
    /\ Len(results) = Len(categorias)
    /\ pcR' = "fim"
    /\ UNCHANGED <<chamada, retornoR, resultadoR, retornos, results, falhaR,
                   falhas, dados_brutosR, levantou, ligacao>>
    /\ UNCHANGED foraR

NextR ==
    \/ RodarQ1
    \/ RodarQ2
    \/ InicializarAnalisador
    \/ ProcessarCategoria
    \/ RetornarResults

SpecRes == InitR /\ [][NextR]_vars


\* ===================================================== stationarity, alone
\* mutant: the level itself counts as non-stationary
NaoEstacionaria_Inclusivo(p) == p >= Alfa

\* line 101: p_valor > 0.05
NaoEstacionaria(p) == p > Alfa

\* adfuller raises on an input it cannot test, or from inside the test
ADFLevanta(sr, interna) == interna \/ RespostasADF(sr) = {"erro"}

InitE ==
    /\ OciosoQ1 /\ OciosoL /\ OciosoR /\ OciosoResto
    /\ pcE = "inicio"
    /\ \E v \in SeqsUpTo(Precos, MaxLen) : serieE = [ini |-> 0, vals |-> v]
    /\ oraculoE \in [p1 : PValores, p2 : PValores, levanta : 0..2]
    /\ p_valor = 0 /\ serie_estacionaria = None /\ testesE = <<>>
    /\ retornoE = None /\ saidaE = "nenhuma"

\* lines 97-99: the first test
TestarADF ==
    /\ pcE = "inicio"
    /\ testesE' = <<serieE>>
    /\ IF ADFLevanta(serieE, oraculoE.levanta = 1)
       THEN saidaE' = "excecao" /\ pcE' = "fim" /\ UNCHANGED p_valor
       ELSE p_valor' = oraculoE.p1 /\ pcE' = "testado" /\ UNCHANGED saidaE
    /\ UNCHANGED <<serieE, oraculoE, serie_estacionaria, retornoE>>
    /\ UNCHANGED foraE

\* lines 101-103: one differencing pass
Diferenciar ==
    /\ pcE = "testado"
    /\ NaoEstacionaria(p_valor)
    /\ serie_estacionaria' = Diff(serieE)
    /\ pcE' = "diferenciado"
    /\ UNCHANGED <<serieE, oraculoE, p_valor, testesE, retornoE, saidaE>>
    /\ UNCHANGED foraE

\* lines 105-107: the test again, its p-value printed, the difference returned
Retestar ==
    /\ pcE = "diferenciado"
    /\ testesE' = Append(testesE, serie_estacionaria)
    /\ IF ADFLevanta(serie_estacionaria, oraculoE.levanta = 2)
       THEN saidaE' = "excecao" /\ UNCHANGED retornoE
       ELSE saidaE' = "ok" /\ retornoE' = serie_estacionaria
    /\ pcE' = "fim"
    /\ UNCHANGED <<serieE, oraculoE, p_valor, serie_estacionaria>>
    /\ UNCHANGED foraE

\* lines 108-110: the series as it came
RetornarSerie ==
    /\ pcE = "testado"
    /\ ~NaoEstacionaria(p_valor)
    /\ retornoE' = serieE
    /\ saidaE' = "ok" /\ pcE' = "fim"
    /\ UNCHANGED <<serieE, oraculoE, p_valor, serie_estacionaria, testesE>>
    /\ UNCHANGED foraE

NextE ==
    \/ TestarADF
    \/ Diferenciar
    \/ Retestar
    \/ RetornarSerie

SpecADF == InitE /\ [][NextE]_vars


\* ============================================ invocations on one analyzer
\* two selections of the dataset, as category flags or as establishments
Selecoes == {"s1", "s2"}

\* weekly means of a selection: none, or one of two prices
CelulasConc == {NaN, <<1>>, <<2>>}

\* the names an invocation binds
SemNomes == [serie_temporal |-> None, dados_pares |-> None]

\* mutant: the value is kept on the analyzer object
Guardar_NoObjeto(cs, ls, nome, valor) ==
    [campos |-> [cs EXCEPT ![nome] = valor], locais |-> ls]

\* an assignment to a name of the method (lines 65, 68, 193): a local
Guardar(cs, ls, nome, valor) ==
    [campos |-> cs, locais |-> [ls EXCEPT ![nome] = valor]]

\* the value behind a name: the local, else the attribute of the object
Ler(cs, ls, nome) == IF ls[nome] # None THEN ls[nome] ELSE cs[nome]

\* what the invocation returns when nothing else runs
Sozinha(inv, db) ==
    IF inv.metodo = "previsao"
    THEN [X |-> CriarX(PrepararSerie(db[inv.a]), inv.n_lags),
          y |-> CriarY(PrepararSerie(db[inv.a]), inv.n_lags)]
    ELSE AlinharPares([A |-> db[inv.a], B |-> db[inv.b]])

Invocacoes ==
    {[metodo |-> "previsao", a |-> c, b |-> c, n_lags |-> 1] : c \in Selecoes}
    \cup {[metodo |-> "lideranca", a |-> par[1], b |-> par[2], n_lags |-> 1] :
              par \in {q \in Selecoes \X Selecoes : q[1] # q[2]}}

InitC ==
    /\ OciosoQ1 /\ OciosoL /\ OciosoR /\ OciosoE /\ OciosoS /\ OciosoG
    /\ OciosoM
    /\ \E w \in 1..MaxSemanasConc :
          dados_brutos \in [Selecoes -> [1..w -> CelulasConc]]
    /\ instantaneo = dados_brutos
    /\ campos = SemNomes
    /\ invocacao \in [1..2 -> Invocacoes]
    /\ pcC = [i \in 1..2 |-> "inicio"]
    /\ locaisC = [i \in 1..2 |-> SemNomes]
    /\ retC = [i \in 1..2 |-> None]
    /\ sobrepostas = FALSE

\* invocation i moves to `para`, having bound `nome` to `valor`
Passo(i, para, nome, valor) ==
    LET g == Guardar(campos, locaisC[i], nome, valor)
    IN  /\ campos' = g.campos
        /\ locaisC' = [locaisC EXCEPT ![i] = g.locais]
        /\ pcC' = [pcC EXCEPT ![i] = para]
        /\ sobrepostas' = (sobrepostas
                             \/ \A j \in 1..2 : pcC'[j] \notin {"inicio", "fim"})
        /\ UNCHANGED <<dados_brutos, instantaneo, invocacao>>
        /\ UNCHANGED foraC

\* lines 59-65: filter, resample, mean
FiltrarReamostrar(i) ==
    /\ pcC[i] = "inicio" /\ invocacao[i].metodo = "previsao"
    /\ Passo(i, "ffill", "serie_temporal", dados_brutos[invocacao[i].a])
    /\ UNCHANGED retC

\* line 68
Preencher(i) ==
    /\ pcC[i] = "ffill"
    /\ Passo(i, "dropna", "serie_temporal",
             Ffill(Ler(campos, locaisC[i], "serie_temporal")))
    /\ UNCHANGED retC

\* line 69: dropna(inplace=True) on the series the name refers to
DescartarIndefinidos(i) ==
    /\ pcC[i] = "dropna"
    /\ Passo(i, "lags", "serie_temporal",
             Desembrulha(DropnaSerie(
                 Indexar(Ler(campos, locaisC[i], "serie_temporal"), 0))))
    /\ UNCHANGED retC

\* lines 71-89: the series is returned and the lag table built from it
CriarLagsDaSerie(i) ==
    /\ pcC[i] = "lags"
    /\ LET sr == Ler(campos, locaisC[i], "serie_temporal")
       IN  /\ retC' = [retC EXCEPT ![i] =
                          [X |-> CriarX(sr, invocacao[i].n_lags),
                           y |-> CriarY(sr, invocacao[i].n_lags)]]
           /\ Passo(i, "fim", "serie_temporal", sr)

\* lines 176-193: filter, pivot, the two columns resampled
PivotarReamostrar(i) ==
    /\ pcC[i] = "inicio" /\ invocacao[i].metodo = "lideranca"
    /\ Passo(i, "alinhar", "dados_pares",
             [A |-> dados_brutos[invocacao[i].a],
              B |-> dados_brutos[invocacao[i].b]])
    /\ UNCHANGED retC

\* lines 193-194: forward fill, dropna(inplace=True)
AlinharNoLugar(i) ==
    /\ pcC[i] = "alinhar"
    /\ Passo(i, "pares", "dados_pares",
             AlinharPares(Ler(campos, locaisC[i], "dados_pares")))
    /\ UNCHANGED retC

\* lines 196-207: the aligned pair goes on to the tests
UsarPares(i) ==
    /\ pcC[i] = "pares"
    /\ LET dp == Ler(campos, locaisC[i], "dados_pares")
       IN  /\ retC' = [retC EXCEPT ![i] = dp]
           /\ Passo(i, "fim", "dados_pares", dp)

NextC ==
    \E i \in 1..2 :
        \/ FiltrarReamostrar(i)
        \/ Preencher(i)
        \/ DescartarIndefinidos(i)
        \/ CriarLagsDaSerie(i)
        \/ PivotarReamostrar(i)
        \/ AlinharNoLugar(i)
        \/ UsarPares(i)

SpecConc == InitC /\ [][NextC]_vars


\* ========================================================== session_scope
\* the rows a with-body may add to its session
LinhasS == {"r1", "r2"}

\* what a with-body may raise: a subclass of Exception, or one of
\* BaseException only
LevantadasNoCorpo == {"ValueError", "KeyboardInterrupt"}

\* get_session, line 103: a new session of the factory
SessaoNova ==
    [transacao |-> "ativa", pendentes |-> {}, adicionadas |-> {},
     fechada |-> 0]

\* mutant: the commit is reached however the body ended
VaiParaCommit_Sempre(fim) == TRUE

\* line 117 follows the yield of line 116: reached when the body returns
VaiParaCommit(fim) == fim = "normal"

\* the block that follows an exception raised inside the try of line 115
Tratador(e) == IF CapturaExcecao(e) THEN "except" ELSE "finally"

InitS ==
    /\ OciosoQ1 /\ OciosoL /\ OciosoR /\ OciosoE /\ OciosoC /\ OciosoG
    /\ OciosoM
    /\ pcS = "fora" /\ session = None
    /\ banco \in SUBSET LinhasS /\ bancoAntes = banco
    /\ fimCorpo = "" /\ excecaoS = "nenhuma" /\ chamadasS = <<>>
    /\ propagadaS = "nenhuma" /\ escopos = 0

\* line 114, then the yield of line 116 hands the session to the body
EntrarNoEscopo ==
    /\ pcS \in {"fora", "saiu"} /\ escopos < MaxEscopos
    /\ session' = SessaoNova
    /\ bancoAntes' = banco
    /\ fimCorpo' = "" /\ excecaoS' = "nenhuma" /\ chamadasS' = <<>>
    /\ propagadaS' = "nenhuma"
    /\ escopos' = escopos + 1
    /\ pcS' = "corpo"
    /\ UNCHANGED banco
    /\ UNCHANGED foraS

\* the with-body adds a row to the session
CorpoAdiciona ==
    /\ pcS = "corpo"
    /\ \E r \in LinhasS \ (session.pendentes \cup banco) :
          session' = [session EXCEPT !.pendentes = @ \cup {r},
                                     !.adicionadas = @ \cup {r}]
    /\ UNCHANGED <<pcS, banco, bancoAntes, fimCorpo, excecaoS, chamadasS,
                   propagadaS, escopos>>
    /\ UNCHANGED foraS

\* the with-body ends: it returns, or raises and the exception is thrown
\* into the generator at the yield
CorpoTermina ==
    /\ pcS = "corpo"
    /\ \E fim \in {"normal"} \cup LevantadasNoCorpo :
          /\ fimCorpo' = fim
          /\ IF VaiParaCommit(fim)
             THEN pcS' = "commit" /\ excecaoS' = "nenhuma"
             ELSE pcS' = Tratador(fim) /\ excecaoS' = fim
    /\ UNCHANGED <<session, banco, bancoAntes, chamadasS, propagadaS, escopos>>
    /\ UNCHANGED foraS

\* line 117: session.commit() writes the pending rows, or raises and writes
\* nothing
Commit ==
    /\ pcS = "commit"
    /\ chamadasS' = Append(chamadasS, "commit")
    /\ \E falha \in BOOLEAN :
          IF falha
          THEN /\ excecaoS' = "OperationalError"
               /\ session' = [session EXCEPT !.transacao = "inativa"]
               /\ pcS' = Tratador("OperationalError")
               /\ UNCHANGED banco
          ELSE /\ banco' = banco \cup session.pendentes
               /\ session' = [session EXCEPT !.transacao = "confirmada",
                                             !.pendentes = {}]
               /\ pcS' = "finally"
               /\ UNCHANGED excecaoS
    /\ UNCHANGED <<bancoAntes, fimCorpo, propagadaS, escopos>>
    /\ UNCHANGED foraS

\* lines 118-121: rollback, log, raise
Rollback ==
    /\ pcS = "except"
    /\ chamadasS' = Append(chamadasS, "rollback")
    /\ session' = [session EXCEPT !.transacao = "revertida", !.pendentes = {}]
    /\ pcS' = "finally"
    /\ UNCHANGED <<banco, bancoAntes, fimCorpo, excecaoS, propagadaS, escopos>>
    /\ UNCHANGED foraS

\* lines 122-123: session.close() ends a transaction still in progress and
\* releases the connection; the exception in flight goes on to the caller
Close ==
    /\ pcS = "finally"
    /\ chamadasS' = Append(chamadasS, "close")
    /\ session' = [session EXCEPT
                      !.transacao = IF @ = "confirmada" THEN @ ELSE "revertida",
                      !.pendentes = {},
                      !.fechada = @ + 1]
    /\ propagadaS' = excecaoS
    /\ pcS' = "saiu"
    /\ UNCHANGED <<banco, bancoAntes, fimCorpo, excecaoS, escopos>>
    /\ UNCHANGED foraS

NextS ==
    \/ EntrarNoEscopo
    \/ CorpoAdiciona
    \/ CorpoTermina
    \/ Commit
    \/ Rollback
    \/ Close

SpecSessao == InitS /\ [][NextS]_vars

\* ================================================= connection singletons
Classes == {"MySQLConnection", "MongoDBConnection"}

Threads == {"t1", "t2"}

\* the calls a thread may make
Operacoes ==
    {[nome |-> n, classe |-> c] : n \in {"construtor", "get"}, c \in Classes}
    \cup {[nome |-> "close_all", classe |-> "MongoDBConnection"]}

\* super().__new__(cls): _engine and _session_factory (or _client and _db)
\* still the class attributes None
ObjetoNovo(c, via) ==
    [classe |-> c, pronto |-> FALSE, aberto |-> FALSE, viaGerente |-> via]

\* where a call starts
Entrada(op) ==
    IF op.nome = "construtor" THEN "teste"
    ELSE IF op.nome = "get" THEN "getTeste"
    ELSE "fechar"

InitG ==
    /\ OciosoQ1 /\ OciosoL /\ OciosoR /\ OciosoE /\ OciosoC /\ OciosoS
    /\ OciosoM
    /\ instancia = [c \in Classes |-> 0]
    /\ objetos = <<>>
    /\ gerenciador = [c \in Classes |-> 0]
    /\ inicializacoes = [c \in Classes |-> 0]
    /\ pcG = [t \in Threads |-> "ocioso"]
    /\ opG = [t \in Threads |-> [nome |-> "nenhuma", classe |-> "MySQLConnection"]]
    /\ retG = [t \in Threads |-> 0]
    /\ devolvidas = {} /\ chamadasG = 0 /\ aposFechar = FALSE

\* a thread calls MySQLConnection(), MongoDBConnection(),
\* DatabaseManager.get_mysql(), get_mongodb() or close_all()
Chamar(t) ==
    /\ pcG[t] = "ocioso" /\ chamadasG < MaxChamadas
    /\ \E op \in Operacoes :
          /\ opG' = [opG EXCEPT ![t] = op]
          /\ pcG' = [pcG EXCEPT ![t] = Entrada(op)]
    /\ retG' = [retG EXCEPT ![t] = 0]
    /\ chamadasG' = chamadasG + 1
    /\ aposFechar' = FALSE
    /\ UNCHANGED <<instancia, objetos, gerenciador, inicializacoes, devolvidas>>
    /\ UNCHANGED foraG

\* lines 74 and 159: if cls._instance is None
TestarInstancia(t) ==
    /\ pcG[t] = "teste"
    /\ pcG' = [pcG EXCEPT ![t] =
                  IF instancia[opG[t].classe] = 0 THEN "criar" ELSE "retornar"]
    /\ aposFechar' = FALSE
    /\ UNCHANGED <<instancia, objetos, gerenciador, inicializacoes, opG, retG,
                   devolvidas, chamadasG>>
    /\ UNCHANGED foraG

\* lines 75 and 160: cls._instance = super().__new__(cls)
CriarInstancia(t) ==
    /\ pcG[t] = "criar"
    /\ objetos' = Append(objetos,
                         ObjetoNovo(opG[t].classe, opG[t].nome = "get"))
    /\ instancia' = [instancia EXCEPT ![opG[t].classe] = Len(objetos) + 1]
    /\ pcG' = [pcG EXCEPT ![t] = "init"]
    /\ aposFechar' = FALSE
    /\ UNCHANGED <<gerenciador, inicializacoes, opG, retG, devolvidas,
                   chamadasG>>
    /\ UNCHANGED foraG

\* lines 76 and 161: cls._instance._initialize(), lines 79-94 and 164-181:
\* the engine and session factory (the client and db) are set, or the
\* exception of create_engine, sessionmaker, connect or MongoClient is
\* logged and raised again
Initialize(t) ==
    /\ pcG[t] = "init"
    /\ inicializacoes' = [inicializacoes EXCEPT ![opG[t].classe] = @ + 1]
    /\ \E levanta \in BOOLEAN :
          IF levanta
          THEN /\ pcG' = [pcG EXCEPT ![t] = "ocioso"]
               /\ retG' = [retG EXCEPT ![t] = -1]
               /\ UNCHANGED objetos
          ELSE /\ objetos' = [objetos EXCEPT ![instancia[opG[t].classe]] =
                                 [@ EXCEPT !.pronto = TRUE, !.aberto = TRUE]]
               /\ pcG' = [pcG EXCEPT ![t] = "retornar"]
               /\ UNCHANGED retG
    /\ aposFechar' = FALSE
    /\ UNCHANGED <<instancia, gerenciador, opG, devolvidas, chamadasG>>
    /\ UNCHANGED foraG

\* lines 77 and 162: return cls._instance; inside get_mysql / get_mongodb
\* the value is assigned to cls._mysql / cls._mongodb (lines 228, 235)
RetornarInstancia(t) ==
    /\ pcG[t] = "retornar"
    /\ IF opG[t].nome = "construtor"
       THEN /\ retG' = [retG EXCEPT ![t] = instancia[opG[t].classe]]
            /\ devolvidas' = devolvidas \cup {instancia[opG[t].classe]}
            /\ pcG' = [pcG EXCEPT ![t] = "ocioso"]
            /\ UNCHANGED gerenciador
       ELSE /\ gerenciador' = [gerenciador EXCEPT ![opG[t].classe] =
                                  instancia[opG[t].classe]]
            /\ pcG' = [pcG EXCEPT ![t] = "getRetorno"]
            /\ UNCHANGED <<retG, devolvidas>>
    /\ aposFechar' = FALSE
    /\ UNCHANGED <<instancia, objetos, inicializacoes, opG, chamadasG>>
    /\ UNCHANGED foraG

\* lines 227 and 234: if cls._mysql is None
GetTestar(t) ==
    /\ pcG[t] = "getTeste"
    /\ pcG' = [pcG EXCEPT ![t] =
                  IF gerenciador[opG[t].classe] = 0 THEN "teste"
                  ELSE "getRetorno"]
    /\ aposFechar' = FALSE
    /\ UNCHANGED <<instancia, objetos, gerenciador, inicializacoes, opG, retG,
                   devolvidas, chamadasG>>
    /\ UNCHANGED foraG

\* lines 229 and 236: return cls._mysql
GetRetornar(t) ==
    /\ pcG[t] = "getRetorno"
    /\ retG' = [retG EXCEPT ![t] = gerenciador[opG[t].classe]]
    /\ devolvidas' = devolvidas \cup {gerenciador[opG[t].classe]}
    /\ pcG' = [pcG EXCEPT ![t] = "ocioso"]
    /\ aposFechar' = FALSE
    /\ UNCHANGED <<instancia, objetos, gerenciador, inicializacoes, opG,
                   chamadasG>>
    /\ UNCHANGED foraG

\* lines 255-260 with close_connection, lines 208-213: the MongoDB object of
\* the manager closes its client and disconnects
CloseAll(t) ==
    /\ pcG[t] = "fechar"
    /\ objetos' = IF gerenciador["MongoDBConnection"] # 0
                  THEN [objetos EXCEPT ![gerenciador["MongoDBConnection"]] =
                           [@ EXCEPT !.aberto = FALSE]]
                  ELSE objetos
    /\ pcG' = [pcG EXCEPT ![t] = "ocioso"]
    /\ aposFechar' = TRUE
    /\ UNCHANGED <<instancia, gerenciador, inicializacoes, opG, retG,
                   devolvidas, chamadasG>>
    /\ UNCHANGED foraG

NextG ==
    \E t \in Threads :
        \/ Chamar(t)
        \/ TestarInstancia(t)
        \/ CriarInstancia(t)
        \/ Initialize(t)
        \/ RetornarInstancia(t)
        \/ GetTestar(t)
        \/ GetRetornar(t)
        \/ CloseAll(t)

SpecConexao == InitG /\ [][NextG]_vars

\* ====================================================== clean-data migration
\* the master tables, in the order populate_master_tables fills them
TabelasMestre == <<"products", "brands", "establishments">>

\* mapa_Produto.json, mapa_Marca.json, mapa_Estabelecimento.json: name -> ID
Mapa == ("a" :> 0) @@ ("b" :> 1)

\* product_id_to_name.get(id, None) and the like, lines 108-110: "" for None
NomePorId(id) ==
    IF \E n \in DOMAIN Mapa : Mapa[n] = id
    THEN CHOOSE n \in DOMAIN Mapa : Mapa[n] = id
    ELSE ""

\* what a master table may hold before the migration: nothing, the rows of
\* an earlier run with the same or with another mapping, a row with another
\* ID, a row of another name
ExistentesPossiveis ==
    {{},
     {[id |-> 1, name |-> "a"], [id |-> 2, name |-> "b"]},
     {[id |-> 2, name |-> "a"], [id |-> 1, name |-> "b"]},
     {[id |-> 3, name |-> "a"]},
     {[id |-> 1, name |-> "c"]}}

\* a row of dados_limpos_ICB.xlsx: IDs of the mapping or unknown ones, the
\* brand possibly empty
LinhasPossiveis ==
    [Produto : 0..2, Marca : {<<>>, <<0>>, <<2>>}, Estabelecimento : {0, 2}]

\* lines 137-140, 153-155, 168-170: the names with no row of that name yet
NomesAInserir(linhas) ==
    {n \in DOMAIN Mapa : ~\E r \in linhas : r.name = n}

\* the foreign keys of the schema (models/mysql.py): the referenced rows exist
ChavesValidas(rec, m) ==
    /\ \E r \in m["products"] : r.id = rec.product_id
    /\ \E r \in m["establishments"] : r.id = rec.establishment_id
    /\ rec.brand_id # <<>> => \E r \in m["brands"] : r.id = rec.brand_id[1]

InitM ==
    /\ OciosoQ1 /\ OciosoL /\ OciosoR /\ OciosoE /\ OciosoC /\ OciosoS
    /\ OciosoG
    /\ pcM = "products"
    /\ mestre \in [{TabelasMestre[k] : k \in 1..Len(TabelasMestre)} ->
                      ExistentesPossiveis]
    /\ \E n \in 1..MaxRegistros : df_clean \in [1..n -> LinhasPossiveis]
    /\ indiceM = 1 /\ pendentesM = <<>> /\ icb_data = <<>>
    /\ records_failed = 0

\* lines 127-187, one table at a time: a row id = original_id + 1 for each
\* name without a row, then the commit, which the primary key may refuse
PopulateMasterTables ==
    /\ \E k \in 1..Len(TabelasMestre) :
          /\ pcM = TabelasMestre[k]
          /\ LET novas == {[id |-> Mapa[n] + 1, name |-> n] :
                              n \in NomesAInserir(mestre[pcM])}
                 recusa == \E nv \in novas, r \in mestre[pcM] :
                               r.id = nv.id \/ r.name = nv.name
             IN  IF recusa
                 THEN pcM' = "falhou" /\ UNCHANGED mestre
                 ELSE /\ mestre' = [mestre EXCEPT ![pcM] = @ \cup novas]
                      /\ pcM' = IF k < Len(TabelasMestre) THEN TabelasMestre[k + 1]
                                ELSE "linhas"
    /\ UNCHANGED <<df_clean, indiceM, pendentesM, icb_data, records_failed>>
    /\ UNCHANGED foraM

\* lines 214-256: one row of the batch
MigrarLinha ==
    /\ pcM = "linhas" /\ indiceM <= Len(df_clean)
    /\ LET row == df_clean[indiceM]
       IN  IF \/ NomePorId(row.Produto) = ""
              \/ NomePorId(row.Estabelecimento) = ""
           THEN /\ records_failed' = records_failed + 1
                /\ UNCHANGED pendentesM
           ELSE /\ pendentesM' = Append(pendentesM,
                      [product_id |-> row.Produto + 1,
                       brand_id |-> IF row.Marca # <<>>
                                    THEN <<row.Marca[1] + 1>> ELSE <<>>,
                       establishment_id |-> row.Estabelecimento + 1,
                       linha |-> row])
                /\ UNCHANGED records_failed
    /\ indiceM' = indiceM + 1
    /\ UNCHANGED <<pcM, mestre, df_clean, icb_data>>
    /\ UNCHANGED foraM

\* lines 258-260 and 276-282: the commit of the batch, which a foreign key
\* may refuse; then everything is rolled back and the migration has failed
CommitLote ==
    /\ pcM = "linhas" /\ indiceM > Len(df_clean)
    /\ IF \A k \in 1..Len(pendentesM) : ChavesValidas(pendentesM[k], mestre)
       THEN icb_data' = icb_data \o pendentesM /\ pcM' = "fim"
       ELSE pcM' = "falhou" /\ UNCHANGED icb_data
    /\ pendentesM' = <<>>
    /\ UNCHANGED <<mestre, df_clean, indiceM, records_failed>>
    /\ UNCHANGED foraM

NextM ==
    \/ PopulateMasterTables
    \/ MigrarLinha
    \/ CommitLote

SpecMigracao == InitM /\ [][NextM]_vars

\* =================================================================== claims
\* the lag table exists (line 126 has run)
FeaturesCriadas ==
    \/ pc \in {"guarda", "divisao", "treino", "previsao"}
    \/ pc = "fim" /\ saida \in {"dados_insuficientes", "excecao", "ok"}

\* the train/test split exists (lines 134-135 have run)
Dividido ==
    \/ pc \in {"treino", "previsao"}
    \/ pc = "fim" /\ saida \in {"excecao", "ok"}

\* C1: for a lag table of n rows and a test window k with 1 <= k < n the
\* training set is the first n - k rows and the test set the last k rows, in
\* order; every test period is later than every training period; every row is
\* in exactly one of the two; the 16-week scenario gives 8 and 4 rows.
C1_DivisaoTemporal ==
    (Dividido /\ 1 <= test_size /\ test_size < Len(y)) =>
        LET n == Len(y)
            k == test_size
        IN  /\ Len(y_train) = n - k /\ Len(X_train) = n - k
            /\ Len(y_test) = k /\ Len(X_test) = k
            /\ \A i \in 1..(n - k) : y_train[i] = y[i] /\ X_train[i] = X[i]
            /\ \A i \in 1..k : y_test[i] = y[n - k + i] /\ X_test[i] = X[n - k + i]
            /\ \A i \in 1..Len(y_train) : \A j \in 1..Len(y_test) :
                  y_train[i].t < y_test[j].t
            /\ \A p \in 1..n :
                  (\E i \in 1..Len(y_train) : y_train[i].t = y[p].t)
                      # (\E j \in 1..Len(y_test) : y_test[j].t = y[p].t)
            /\ (semanal = CenarioSerie => Len(y_train) = 8 /\ Len(y_test) = 4)

C1_Witness ==
    /\ Dividido /\ variante = "preco_ml"
    /\ semanal = CenarioSerie /\ n_lags = 4 /\ test_size = 4
    /\ Len(X_train) = 8 /\ Len(X_test) = 4

\* C2: the lag table has Len(serie) - n_lags rows when the series is longer
\* than n_lags; otherwise the table is empty and the analysis stops with the
\* insufficient-data error, before any split or training.
C2_LinhasDaTabela ==
    FeaturesCriadas =>
        /\ Len(X) = Len(y)
        /\ Len(serie) > n_lags => Len(y) = Len(serie) - n_lags
        /\ Len(serie) <= n_lags =>
              /\ Len(y) = 0
              /\ pc \in {"guarda", "fim"}
              /\ pc = "fim" => saida = "dados_insuficientes"

C2_Witness ==
    /\ pc = "fim" /\ variante = "preco_ml" /\ saida = "dados_insuficientes"
    /\ serie # <<>> /\ Len(serie) <= n_lags /\ test_size = 0 /\ y = <<>>

\* C3: the lag table has one row for each period at position >= n_lags of the
\* series (0-indexed) and none for the earlier ones; the row's target is the
\* series value there and its feature i the value i periods earlier.
C3_ConteudoDosLags ==
    FeaturesCriadas =>
        /\ Len(X) = Len(y)
        /\ \A p \in 1..Len(serie) :
              LET linhas == {r \in 1..Len(y) : y[r].t = serie[p].t}
              IN  IF p - 1 >= n_lags
                  THEN /\ Cardinality(linhas) = 1
                       /\ \A r \in linhas :
                             /\ y[r].v = serie[p].v
                             /\ X[r].t = serie[p].t
                             /\ Len(X[r].lags) = n_lags
                             /\ \A i \in 1..n_lags : X[r].lags[i] = serie[p - i].v
                  ELSE linhas = {}

C3_Witness ==
    /\ FeaturesCriadas /\ n_lags = 2 /\ Len(y) >= 2
    /\ X[1].lags[1] # X[1].lags[2] /\ X[2].lags[1] # X[1].lags[1]

C5_RetreinaNoTotal ==
    (pc = "fim" /\ saida = "ok") => modelo_final = Fit(X, y)

\* the two Granger tests have answered (lines 215-235 have run)
GrangerFeito ==
    /\ pcL \in {"ccf", "retornou", "empacotado", "exibido"}
    /\ granger_A_causa_B # <<>>

\* the cross-correlation was computed and a lag reported (lines 238-245)
CcfFeita ==
    /\ pcL \in {"retornou", "empacotado", "exibido"}
    /\ saidaL = "ok"

\* the dashboard shows the metrics of a successful analysis
MetricasExibidas ==
    /\ pcL = "exibido"
    /\ resultados_q2.erro = SemErro

\* C6: for each direction the reported p-value is the minimum of the per-lag
\* p-values over the lag orders 1..max_lag, all of them and no other, and the
\* direction is significant, printed and displayed, iff that minimum is
\* strictly below 0.05, whatever the other direction's p-values are.
C6_VereditoGranger ==
    GrangerFeito =>
        /\ DOMAIN granger_A_causa_B = 1..max_lag
        /\ DOMAIN granger_B_causa_A = 1..max_lag
        /\ \E l \in 1..max_lag : p_valor_min_A_B = granger_A_causa_B[l]
        /\ \A l \in 1..max_lag : p_valor_min_A_B <= granger_A_causa_B[l]
        /\ \E l \in 1..max_lag : p_valor_min_B_A = granger_B_causa_A[l]
        /\ \A l \in 1..max_lag : p_valor_min_B_A <= granger_B_causa_A[l]
        /\ sigAB <=> (p_valor_min_A_B < Alfa)
        /\ sigBA <=> (p_valor_min_B_A < Alfa)
        /\ MetricasExibidas =>
              /\ exibido.A_puxa_B <=> (p_valor_min_A_B < Alfa)
              /\ exibido.B_puxa_A <=> (p_valor_min_B_A < Alfa)

C6_Witness ==
    /\ MetricasExibidas /\ max_lag = 2
    /\ granger_A_causa_B[1] > granger_A_causa_B[2]
    /\ p_valor_min_A_B = 1 /\ exibido.A_puxa_B
    /\ granger_B_causa_A[1] = 9
    /\ p_valor_min_B_A = Alfa /\ ~exibido.B_puxa_A

\* C7: the p-value reported for 'A leads B' is that of the test in which B is
\* predicted and A's lags are added, the one for 'B leads A' that of the test
\* with the roles swapped; returned, packed and displayed without exchange.
C7_DirecaoDosTestes ==
    GrangerFeito =>
        /\ \A l \in 1..max_lag :
              /\ granger_A_causa_B[l] = oraculo.x_A_y_B[l]
              /\ granger_B_causa_A[l] = oraculo.x_B_y_A[l]
        /\ p_valor_min_A_B \in {oraculo.x_A_y_B[l] : l \in 1..max_lag}
        /\ p_valor_min_B_A \in {oraculo.x_B_y_A[l] : l \in 1..max_lag}
        /\ (CcfFeita /\ retorno.tipo = "tupla") =>
              /\ retorno.p_A_causa_B = <<p_valor_min_A_B>>
              /\ retorno.p_B_causa_A = <<p_valor_min_B_A>>
        /\ MetricasExibidas =>
              /\ resultados_q2.p_A_causa_B = <<p_valor_min_A_B>>
              /\ resultados_q2.p_B_causa_A = <<p_valor_min_B_A>>
              /\ exibido.A_puxa_B <=> \E l \in 1..max_lag : oraculo.x_A_y_B[l] < Alfa
              /\ exibido.B_puxa_A <=> \E l \in 1..max_lag : oraculo.x_B_y_A[l] < Alfa

C7_Witness ==
    /\ MetricasExibidas /\ max_lag = 1
    /\ oraculo.x_A_y_B[1] = 9 /\ oraculo.x_B_y_A[1] = 1
    /\ ~exibido.A_puxa_B /\ exibido.B_puxa_A
    /\ resultados_q2.p_A_causa_B = <<9>> /\ resultados_q2.p_B_causa_A = <<1>>

\* C8: the reported lag is in 1..max_lag, no lag in 1..max_lag has a larger
\* absolute cross-correlation, every lower lag has a strictly smaller one,
\* lag 0 is never reported, and the reported value is the signed coefficient
\* at the reported lag; the dashboard shows the same lag.
C8_LagMaisForte ==
    CcfFeita =>
        /\ max_corr_lag \in 1..max_lag
        /\ Len(ccf_vals) = max_lag + 1
        /\ \A j \in 1..max_lag :
              Abs(ccf_vals[j + 1][1]) * ccf_vals[max_corr_lag + 1][2]
                  <= Abs(ccf_vals[max_corr_lag + 1][1]) * ccf_vals[j + 1][2]
        /\ \A j \in 1..(max_corr_lag - 1) :
              Abs(ccf_vals[j + 1][1]) * ccf_vals[max_corr_lag + 1][2]
                  < Abs(ccf_vals[max_corr_lag + 1][1]) * ccf_vals[j + 1][2]
        /\ max_corr_val = ccf_vals[max_corr_lag + 1]
        /\ MetricasExibidas => exibido.max_lag_val = max_corr_lag

\* lag 0 has the largest coefficient, a negative one is reported
C8_Witness ==
    /\ MetricasExibidas /\ max_lag = 2
    /\ AbsMaior(ccf_vals[1], ccf_vals[max_corr_lag + 1])
    /\ max_corr_val[1] < 0
    /\ exibido.max_lag_val = max_corr_lag

\* series B is series A delayed by k weeks
CopiaDeslocada(k) ==
    /\ Len(dados_pares.A) = Len(dados_pares.B)
    /\ ~Constante(dados_pares.A)
    /\ \A t \in 1..Len(dados_pares.B) :
          dados_pares.B[t] = IF t > k THEN dados_pares.A[t - k] ELSE dados_pares.A[1]

\* C9: when B is A delayed by k weeks, 1 <= k <= max_lag, the analysis of
\* the pair (A, B) reports k as the strongest lag.
C9_DetectaDeslocamento ==
    \A k \in 1..max_lag : (CcfFeita /\ CopiaDeslocada(k)) => max_corr_lag = k

\* the analyzer call did not deliver its data
FalhouAMontante(ret) == ret.tipo # "tupla" \/ ret.erro # SemErro

\* C10: in the results of rodar_analise_q1, rodar_analise_q2 and
\* run_model_predictions the error field is set iff the upstream step failed;
\* when it is set no data field carries a value; when it is not set every
\* data field is there: metrics and real-vs-predicted table for forecasting,
\* paired series, lag-correlation table and both p-values for lead-lag.
C10_ObjetosDeResultado ==
    /\ (pcR = "fim" /\ chamada = "q1") =>
          /\ (resultadoR.erro # SemErro) <=> FalhouAMontante(retornoR)
          /\ resultadoR.erro # SemErro =>
                resultadoR.df_plot = None /\ resultadoR.mse = None
                    /\ resultadoR.mae = None
          /\ resultadoR.erro = SemErro =>
                resultadoR.df_plot # None /\ resultadoR.mse # None
                    /\ resultadoR.mae # None
    /\ (pcR = "fim" /\ chamada = "q2") =>
          /\ (resultadoR.erro # SemErro) <=> FalhouAMontante(retornoR)
          /\ resultadoR.erro # SemErro => DOMAIN resultadoR = {"erro"}
          /\ resultadoR.erro = SemErro =>
                /\ {"dados_pares_plot", "ccf_df", "p_A_causa_B", "p_B_causa_A"}
                       \subseteq DOMAIN resultadoR
                /\ resultadoR.dados_pares_plot # None
                /\ resultadoR.ccf_df # <<>>
                /\ resultadoR.p_A_causa_B # <<>> /\ resultadoR.p_B_causa_A # <<>>
    /\ chamada = "pipeline" =>
          \A i \in 1..Len(results) :
              LET r == results[i].resultado
              IN  /\ ("error" \in DOMAIN r) <=> FalhouAMontante(retornos[i])
                  /\ "error" \in DOMAIN r => DOMAIN r = {"error"}
                  /\ "error" \notin DOMAIN r =>
                        /\ {"mse", "mae", "mape"} \subseteq DOMAIN r
                        /\ "df_plot" \in DOMAIN r

\* C11: whatever fails inside an analysis (a statistical test that raises, a
\* dataset that did not load, a missing column, too little data), the wrapper
\* rodar_analise_q1, rodar_analise_q2 or run_model_predictions raises nothing
\* to its caller and the result it returns has its error field set.
C11_NenhumaExcecaoEscapa ==
    /\ levantou = "nenhuma"
    /\ (pcR = "fim" /\ chamada \in {"q1", "q2"} /\ falhaR # "nenhuma") =>
          resultadoR.erro # SemErro
    /\ (chamada = "pipeline" /\ levantou = "nenhuma") =>
          /\ Len(results) = Len(falhas)
          /\ \A i \in 1..Len(results) :
                falhas[i] # "nenhuma" => "error" \in DOMAIN results[i].resultado

\* a statistical test raised inside rodar_analise_q2
C11_Witness ==
    /\ pcR = "fim" /\ chamada = "q2"
    /\ falhaR = "teste_estatistico" /\ retornoR.tipo = "excecao"
    /\ resultadoR.erro # SemErro

\* the analyzer handed back its data and no error
RetornouDados(ret) == ret.tipo = "tupla" /\ ret.erro = SemErro

\* C12: an outcome without a signal is a success: when neither Granger
\* direction is significant (both minimum p-values >= 0.05), or when the
\* evaluation MAPE is 10% or more, the result has an empty error field and
\* carries all its data fields; the 10% judgement is a pass/fail value only,
\* true exactly when MAPE < 10%.
C12_SemSinalESucesso ==
    /\ (pcR = "fim" /\ chamada = "q2" /\ RetornouDados(retornoR)
            /\ retornoR.p_A_causa_B[1] >= Alfa /\ retornoR.p_B_causa_A[1] >= Alfa) =>
          /\ resultadoR.erro = SemErro
          /\ resultadoR.dados_pares_plot = retornoR.dados_pares_plot
          /\ resultadoR.dados_pares_plot # None
          /\ resultadoR.ccf_df = retornoR.ccf_df /\ resultadoR.ccf_df # <<>>
          /\ resultadoR.p_A_causa_B = retornoR.p_A_causa_B
          /\ resultadoR.p_B_causa_A = retornoR.p_B_causa_A
    /\ chamada = "pipeline" =>
          \A i \in 1..Len(results) :
              LET r == results[i].resultado
                  ret == retornos[i]
              IN  RetornouDados(ret) =>
                    /\ "error" \notin DOMAIN r
                    /\ r.objetivo_atingido <=> (ret.mape[1] < Objetivo)
                    /\ ret.mape[1] >= Objetivo =>
                          /\ r.mse = ret.mse[1] /\ r.mae = ret.mae[1]
                          /\ r.mape = ret.mape[1]
                          /\ "df_plot" \in DOMAIN r

\* C13: a forecast asked for a category flag that no observation carries
\* ends with the EmptySelection error; no metrics, tables or forecast are
\* produced, and no empty series reaches lag featurization or training.
C13_SelecaoVaziaFalha ==
    /\ (pc # "inicio" /\ colunaExiste /\ semanal = <<>>) =>
          /\ pc = "fim" /\ saida = "nenhum_dado"
          /\ serie = None /\ X = <<>> /\ y = <<>>
          /\ X_train = <<>> /\ X_test = <<>>
          /\ modelo = None /\ modelo_final = None
          /\ predicoes = <<>> /\ previsoes = <<>>
    /\ (pc = "lags" \/ FeaturesCriadas) => serie # <<>>

C13_Witness ==
    /\ pc = "fim" /\ saida = "nenhum_dado"
    /\ colunaExiste /\ semanal = <<>> /\ variante = "preco_ml"

\* the sufficiency check of line 128 has been passed or has failed
GuardaFeita ==
    \/ pc \in {"divisao", "treino", "previsao"}
    \/ pc = "fim" /\ saida \in {"dados_insuficientes", "excecao", "ok"}

\* C14: evaluation with a test window of k >= 1 rows fails with
\* InsufficientData exactly when the training prefix, the rows of the lag
\* table other than the last k, is empty; with at least one training row it
\* goes on to train the model and score the test window.
C14_PrefixoVazioFalha ==
    (GuardaFeita /\ test_size >= 1) =>
        ((saida = "dados_insuficientes") <=> (Len(y) - test_size <= 0))

\* the pair was aligned and its length checked (lines 193-199 have run)
AlinhamentoFeito ==
    \/ pcL \in {"adfA", "adfB", "granger", "ccf"}
    \/ /\ pcL \in {"retornou", "empacotado", "exibido"}
       /\ saidaL \in {"dados_insuficientes", "excecao", "ok"}

\* the periods before the first one at which both stores have had a price
PeriodosIniciaisIndefinidos ==
    Cardinality({i \in 1..Len(pivot.A) :
                    \/ \A j \in 1..i : pivot.A[j] = NaN
                    \/ \A j \in 1..i : pivot.B[j] = NaN})

\* C15: lead-lag analysis fails with InsufficientPairedData whenever the
\* aligned pair (after resample, forward fill and the drop of the leading
\* undefined periods) has fewer than max_lag + 20 periods, and then runs no
\* stationarity test, Granger test or cross-correlation; with max_lag + 20
\* periods or more it does not fail for this reason.
C15_PoucosParesFalha ==
    AlinhamentoFeito =>
        LET n == Len(dados_pares.A)
        IN  /\ Len(dados_pares.B) = n
            /\ n = Len(pivot.A) - PeriodosIniciaisIndefinidos
            /\ n < max_lag + MinimoPares =>
                  /\ pcL \in {"retornou", "empacotado", "exibido"}
                  /\ saidaL = "dados_insuficientes"
                  /\ serie_A_est = None /\ serie_B_est = None
                  /\ dados_estacionarios = None
                  /\ granger_A_causa_B = <<>> /\ granger_B_causa_A = <<>>
                  /\ ccf_vals = <<>>
            /\ n >= max_lag + MinimoPares => saidaL # "dados_insuficientes"

\* one period short, after a leading undefined period was dropped
C15_Witness ==
    /\ pcL = "retornou" /\ saidaL = "dados_insuficientes"
    /\ Len(dados_pares.A) = max_lag + MinimoPares - 1
    /\ pivot.B[1] = NaN /\ Len(pivot.B) = max_lag + MinimoPares

\* C17: when the unit-root test on the input gives p <= 0.05 the input is
\* returned unchanged; when it gives p > 0.05 the returned series is the
\* first difference value[t] - value[t-1] without the leading undefined
\* entry (one entry fewer, the later periods kept), and the test is run
\* again, on the differenced series.
C17_TestadorDeEstacionariedade ==
    /\ testesE # <<>> => testesE[1] = serieE
    /\ saidaE = "ok" =>
          IF oraculoE.p1 <= Alfa
          THEN retornoE = serieE /\ Len(testesE) = 1
          ELSE /\ Len(retornoE.vals) = Len(serieE.vals) - 1
               /\ retornoE.ini = serieE.ini + 1
               /\ \A i \in 1..Len(retornoE.vals) :
                     retornoE.vals[i] = serieE.vals[i + 1] - serieE.vals[i]
               /\ Len(testesE) = 2 /\ testesE[2] = retornoE

C17_Witness ==
    /\ pcE = "fim" /\ saidaE = "ok" /\ oraculoE.p1 > Alfa
    /\ serieE.vals = <<0, 1, 0, 0, 1>>
    /\ retornoE.vals = <<1, -1, 0, 1>>

\* the number of differencing passes behind the returned series
Passes == Len(serieE.vals) - Len(retornoE.vals)

\* C18: with the default max_diff_passes = 2 a series that is still
\* non-stationary (p > 0.05) after the first differencing pass is differenced
\* a second time; differencing is never applied more than max_diff_passes
\* times and stops as soon as a test gives p <= 0.05.
C18_SegundaDiferenciacao ==
    saidaE = "ok" =>
        /\ Passes <= 2
        /\ oraculoE.p1 <= Alfa => Passes = 0
        /\ (oraculoE.p1 > Alfa /\ oraculoE.p2 <= Alfa) => Passes = 1
        /\ (oraculoE.p1 > Alfa /\ oraculoE.p2 > Alfa) =>
              Passes = 2 /\ retornoE = Diff(Diff(serieE))

\* the weeks of the resampled range that hold an observation
Definidos == {i \in 1..Len(semanal) : semanal[i] # NaN}

\* C20: the series _preparar_serie_temporal returns has one value per period
\* with strictly increasing period timestamps; every period between its
\* first and its last holds a defined value; a period without observations
\* holds the value of the nearest earlier period that had some; and the only
\* periods removed are the undefined ones at the start of the range.
C20_SerieSemBuracos ==
    (pc # "inicio" /\ colunaExiste /\ semanal # <<>>) =>
        IF Definidos = {} THEN serie = <<>>
        ELSE LET prim == CHOOSE i \in Definidos : \A j \in Definidos : i <= j
             IN  /\ Len(serie) = Len(semanal) - prim + 1
                 /\ \A i \in 1..Len(serie) : \A j \in 1..Len(serie) :
                       i < j => serie[i].t < serie[j].t
                 /\ \A i \in 1..Len(serie) :
                       LET p == prim + i - 1
                           ant == {j \in Definidos : j <= p}
                           ult == CHOOSE j \in ant : \A r \in ant : r <= j
                       IN  /\ serie[i].t = p - 1
                           /\ serie[i].v = semanal[ult][1]

\* a leading undefined week is dropped, an interior one is filled
C20_Witness ==
    /\ pc = "lags"
    /\ semanal = <<NaN, <<1>>, NaN, <<0>>>>
    /\ serie = <<[t |-> 1, v |-> 1], [t |-> 2, v |-> 1], [t |-> 3, v |-> 0]>>

\* the test window was scored (lines 145-155 have run)
Avaliado == pc = "previsao" \/ (pc = "fim" /\ saida = "ok")

\* C21: when an actual value of the test window is exactly zero the
\* evaluation reports MAPE as the distinct state 'undefined': no numeric MAPE
\* comes back for that window and no pass/fail judgement against the 10%
\* objective is derived from one.
C21_MapeIndefinido ==
    (Avaliado /\ \E i \in 1..Len(y_test) : y_test[i].v = 0) =>
        mape[1].indefinido /\ conclusao = "nenhuma"

\* C22: no invocation writes to state shared with another one: the raw
\* dataset and the attributes of the analyzer object stay as they were, and
\* under any interleaving of two invocations on the same analyzer each
\* returns what it returns when run alone.
C22_InvocacoesNaoInterferem ==
    /\ dados_brutos = instantaneo
    /\ campos = SemNomes
    /\ \A i \in 1..2 :
          pcC[i] = "fim" => retC[i] = Sozinha(invocacao[i], instantaneo)

\* a forecast and a lead-lag analysis were under way at once, both on a
\* selection with a week to fill, and both have returned
C22_Witness ==
    /\ sobrepostas /\ pcC[1] = "fim" /\ pcC[2] = "fim"
    /\ invocacao[1].metodo = "previsao" /\ invocacao[2].metodo = "lideranca"
    /\ invocacao[1].a = "s1"
    /\ dados_brutos["s1"] = <<<<1>>, NaN>> /\ dados_brutos["s2"] = <<NaN, <<2>>>>
    /\ Len(retC[1].y) = 1 /\ Len(retC[2].A) = 1

\* the with statement has been left
SaiuDoEscopo == pcS = "saiu"

\* the exception raised by the body or by the commit, "nenhuma" if neither
LevantadaNoEscopo ==
    IF fimCorpo # "normal" THEN fimCorpo
    ELSE IF session.transacao = "confirmada" THEN "nenhuma"
    ELSE "OperationalError"

\* C23: session_scope is transactional: commit is called exactly when the
\* with-body finishes without raising; if the body or the commit raises, the
\* session is rolled back (nothing of it reaches the database) and the same
\* exception reaches the caller; the session is closed exactly once, after
\* the commit or rollback.  An exception that `except Exception` catches is
\* moreover followed by the rollback call itself, right before the close.
C23_EscopoTransacional ==
    /\ pcS \in {"finally", "saiu"} =>
          /\ (\E k \in DOMAIN chamadasS : chamadasS[k] = "commit")
                 <=> fimCorpo = "normal"
          /\ session.transacao = "confirmada" =>
                 banco = bancoAntes \cup session.adicionadas
    /\ SaiuDoEscopo =>
          /\ propagadaS = LevantadaNoEscopo
          /\ LevantadaNoEscopo # "nenhuma" =>
                 /\ session.transacao = "revertida"
                 /\ banco = bancoAntes
          /\ CapturaExcecao(LevantadaNoEscopo) =>
                 chamadasS[Len(chamadasS) - 1] = "rollback"
          /\ session.fechada = 1
          /\ chamadasS[Len(chamadasS)] = "close"
          /\ \A k \in 1..(Len(chamadasS) - 1) : chamadasS[k] # "close"
    /\ pcS \in {"corpo", "commit", "except", "finally"} => session.fechada = 0

\* the commit raised after a body that added a row, the scope rolled back
\* and closed, and OperationalError reached the caller
C23_Witness ==
    /\ SaiuDoEscopo /\ escopos = 2
    /\ chamadasS = <<"commit", "rollback", "close">>
    /\ propagadaS = "OperationalError"
    /\ banco = {"r1"} /\ bancoAntes = {"r1"}

\* the objects of a class
ObjetosDe(c) == {k \in DOMAIN objetos : objetos[k].classe = c}

\* C24: MySQLConnection and MongoDBConnection are singletons: over any
\* sequence of constructor and DatabaseManager.get_mysql / get_mongodb
\* calls, also interleaved from several threads, at most one instance of
\* each class is ever created and its _initialize runs at most once.
C24_UmaInstanciaPorClasse ==
    \A c \in Classes :
        /\ Cardinality(ObjetosDe(c)) <= 1
        /\ inicializacoes[c] <= 1

\* C25: after DatabaseManager.close_all returns no connection opened
\* through DatabaseManager remains open, neither the MongoDB client nor the
\* MySQL engine and its connection pool.
C25_FechaTodasAsConexoes ==
    (aposFechar /\ \A t \in Threads : pcG[t] = "ocioso") =>
        \A k \in DOMAIN objetos : objetos[k].viaGerente => ~objetos[k].aberto

\* no constructor call of the class is under way
SemConstrutorEmCurso(c) ==
    \A t \in Threads :
        pcG[t] \in {"teste", "criar", "init", "retornar"} => opG[t].classe # c

\* C30: a failed initialisation leaves no broken singleton: no
\* half-initialised instance is retained once the constructor call that
\* raised is over, and every instance ever returned to a caller has its
\* engine and session factory (client and db) set.
C30_SemSingletonQuebrado ==
    /\ \A k \in devolvidas : objetos[k].pronto
    /\ \A c \in Classes :
          (SemConstrutorEmCurso(c) /\ instancia[c] # 0) =>
              objetos[instancia[c]].pronto

\* C27: the caller's lag depth reaches the analysis: when rodar_analise_q2
\* is called with max_lag = m, analisar_lideranca_preco runs with lag depth
\* m and the aggregation frequency stays weekly.
C27_LagDoPainelChegaNaAnalise ==
    (pcR = "fim" /\ chamada = "q2") =>
        /\ ligacao.max_lag = ToString(ligacao.m)
        /\ ligacao.freq = "W-MON"

\* C28: the two series passed to the cross-correlation always have the same
\* length and the same period index, being the re-aligned pair that the
\* Granger tests use, also when exactly one of the two series was
\* differenced by the stationarity step.
C28_EntradaDaCcfAlinhada ==
    pcL = "ccf" =>
        /\ Len(CcfEntrada[1]) = Len(CcfEntrada[2])
        /\ serie_A_est.ini = serie_B_est.ini
        /\ CcfEntrada = <<dados_estacionarios.A, dados_estacionarios.B>>

\* C29: the value reported as the forecast for period T+1, the period after
\* the last observed period T, is the prediction for the feature vector whose
\* lag-i entry is the observed value at T - i + 1, for i in 1..n_lags, and
\* not the prediction for the feature row of an observed period.
C29_EntradaDaProximaPrevisao ==
    (pc = "fim" /\ saida = "ok" /\ variante = "preco_ml") =>
        LET T == Len(serie)
            entrada == [i \in 1..n_lags |-> serie[T - i + 1].v]
        IN  /\ historico[1] = entrada
            /\ previsoes[1] = Predict(modelo_final, entrada)

\* the master row the key refers to carries the name the mapping gives to
\* the original ID
ChaveComNome(linhas, chave, original) ==
    \E r \in linhas : r.id = chave /\ r.name = NomePorId(original)

\* C26: every ICBData record added by migrate_data has product_id and
\* establishment_id (and brand_id when not null) equal to the id of a row
\* of the master table as populate_master_tables left it, and that row's
\* name is the one the JSON mapping gives to the record's original ID; also
\* when a master row of that name existed before the migration.
C26_ChavesEstrangeirasValidas ==
    \A k \in 1..Len(icb_data) :
        LET rec == icb_data[k]
        IN  /\ ChaveComNome(mestre["products"], rec.product_id,
                            rec.linha.Produto)
            /\ ChaveComNome(mestre["establishments"], rec.establishment_id,
                            rec.linha.Estabelecimento)
            /\ rec.brand_id # <<>> =>
                   ChaveComNome(mestre["brands"], rec.brand_id[1],
                                rec.linha.Marca[1])

====
